---- MODULE Spec2Model ----
(***************************************************************************)
(* The WhatsApp service (whatsappService.js): the four process-wide maps,   *)
(* initializeWhatsApp, restoreWhatsAppSession, disconnectWhatsApp, the     *)
(* lifecycle-event handlers registered on each client, the read accessors, *)
(* and the Gateway functions getChats, getChatMessages, getChatCount and   *)
(* sendMessage.  Execution is single-threaded and cooperative: every       *)
(* action below is the code that runs between two suspension points        *)
(* (await) of one async function or one event callback.                    *)
(***************************************************************************)
EXTENDS Integers, Sequences, FiniteSets, TLC

\* ------------------------------------------------------------------ bounds
Users == {"u1", "u2"}

\* the pairing code is an opaque string; one value stands for all of them
QrPayloads == {"qr"}

\* async IIFEs (initPromise) started over a run; each constructs at most one
\* Client, so the client built by operation o is identified with o
MaxOps == 2

\* calls of initializeWhatsApp / restoreWhatsAppSession / disconnectWhatsApp
MaxCalls == 2

\* the same two bounds of the wider specification
WideOps == 3

WideCalls == 3

\* the bounds of the specification with the Gateway: lifecycle calls, IIFEs,
\* and calls of getChats / getChatMessages / getChatCount / sendMessage
GatewayCalls == 2

GatewayOps == 1

GatewayReads == 1

\* `attempts < 20`: the ceiling of the readiness wait
MaxAttempts == 20

\* ------------------------------------------------------- values of the maps
\* Map.get of a missing key
NoClient == 0

NoOp == 0

NoQr == <<>>

Absent == "absent"

Null == <<>>

Statuses ==
  {"initializing", "qr_ready", "authenticated", "restoring", "connected",
   "disconnected", "auth_failure"}

\* qrcode.toDataURL(qr): the data URL that encodes the pairing code
toDataURL(n) == <<"data:image/png;base64", n>>

\* ------------------------------------------------------------------- state
VARIABLES
  activeClients,        \* Map userId -> Client           (NoClient: no key)
  qrCodes,              \* Map userId -> QR data URL      (NoQr: no key)
  connectionStatus,     \* Map userId -> status string    (Absent: no key)
  initializingClients,  \* Map userId -> initPromise      (NoOp: no key)
  ops,                  \* the initPromise IIFEs, in creation order
  clients,              \* the transport's state of the client of each op
  pendingQr,            \* 'qr' callbacks suspended in qrcode.toDataURL
  calls,                \* suspended invocations of the exported async functions
  returned,             \* the invocations that settled in the step just taken
  sessionFiles,         \* data/<userId>/.wwebjs_auth holds files
  budget,               \* calls the callers of the service still make per user,
                        \* and the IIFEs a run may start
  isWritingUsers,       \* the lock flag of writeUsers
  writeQueue,           \* the queued writeOperation closures, by request
  usersFile,            \* data/users.json
  requests              \* the register and login requests, answered or not

vars ==
  <<activeClients, qrCodes, connectionStatus, initializingClients, ops,
    clients, pendingQr, calls, returned, sessionFiles, budget,
    isWritingUsers, writeQueue, usersFile, requests>>

\* the user store of index.js
store == <<isWritingUsers, writeQueue, usersFile, requests>>

\* the state of whatsappService.js and of its callers
service ==
  <<activeClients, qrCodes, connectionStatus, initializingClients, ops,
    clients, pendingQr, calls, returned, sessionFiles, budget>>

registry == <<activeClients, qrCodes, connectionStatus, initializingClients>>

OpIds == 1..(IF WideOps > MaxOps THEN WideOps ELSE MaxOps)

\* ----------------------------------------------------------------- results
NoResult ==
  [outcome |-> "none", success |-> FALSE, connected |-> FALSE,
   hasSession |-> "absent", message |-> "", err |-> 0]

Ret(connected, hasSession, message) ==
  [outcome |-> "return", success |-> TRUE, connected |-> connected,
   hasSession |-> hasSession, message |-> message, err |-> 0]

\* the error object thrown inside operation o at the given step
Thrown(o, step) ==
  [outcome |-> "throw", success |-> FALSE, connected |-> FALSE,
   hasSession |-> "absent", message |-> step, err |-> o]

AlreadyConnected == Ret(TRUE, "absent", "WhatsApp already connected")

AlreadyInitializing == Ret(FALSE, "absent", "WhatsApp client is already initializing")

Initialized == Ret(FALSE, "absent", "WhatsApp client initialized. Waiting for QR code...")

RestoreAlreadyConnected == Ret(TRUE, "true", "WhatsApp already connected")

RestoreAfterWait == Ret(TRUE, "true", "WhatsApp session restored")

NoSessionFound == Ret(FALSE, "false", "No existing session found")

RestoredOk == Ret(TRUE, "true", "WhatsApp session restored successfully")

NotConnectedYet == Ret(FALSE, "true", "Session files found but not connected yet")

\* disconnectWhatsApp resolves with undefined
Disconnected == Ret(FALSE, "absent", "")

\* `throw new Error(message)` of a Gateway function
GatewayError(message) ==
  [outcome |-> "throw", success |-> FALSE, connected |-> FALSE,
   hasSession |-> "absent", message |-> message, err |-> NoOp]

NotInitializedError == GatewayError("WhatsApp client not initialized")

NotReadyError(kind) ==
  IF kind = "getChatCount"
    THEN GatewayError("WhatsApp client not ready")
    ELSE GatewayError("WhatsApp client not ready. Please wait a moment and try again.")

NotConnectedError == GatewayError("WhatsApp client not connected")

\* an error thrown by the transport call of a Gateway function
TransportError == GatewayError("transport")

\* the value a Gateway function resolves with
GatewayOk(kind) ==
  [outcome |-> "return", success |-> TRUE, connected |-> TRUE,
   hasSession |-> "absent", message |-> kind, err |-> NoOp]

\* res.status(400) of the messages route
RouteNotConnected ==
  [outcome |-> "status400", success |-> FALSE, connected |-> FALSE,
   hasSession |-> "absent", message |-> "Client not connected", err |-> NoOp]

\* ------------------------------------------------------------ map helpers
MapSet(m, u, v) == [m EXCEPT ![u] = v]

MapDelete(m, u, none) == [m EXCEPT ![u] = none]

\* existingClient.info / client.info: set by the transport when it is ready
ClientInfo(c) == clients[c].info

\* ------------------------------------------------------------- accessors
getQRCode(userId) ==
  IF qrCodes[userId] = NoQr THEN Null ELSE qrCodes[userId]

getConnectionStatus(userId) ==
  IF connectionStatus[userId] = Absent THEN "not_initialized"
  ELSE connectionStatus[userId]

getClient(userId) == activeClients[userId]

\* getClientInfo: the identity of the registered client once it is ready
getClientInfo(userId) ==
  IF activeClients[userId] # NoClient /\ ClientInfo(activeClients[userId])
    THEN <<"wid", "pushname", "platform">>
    ELSE Null

\* GET /api/whatsapp/status/:userId
StatusRoute(userId) ==
  [success |-> TRUE, status |-> getConnectionStatus(userId),
   connected |-> (getConnectionStatus(userId) = "connected"),
   clientInfo |-> getClientInfo(userId)]

\* ------------------------------------------------------------------- calls
\* One invocation.  op: the initPromise it awaits; own: it started that IIFE;
\* client: the existingClient / client it holds.  Bookkeeping of what happened
\* while it was suspended: nofiles (no credentials were on disk since it
\* started), disc (a disconnect of its user started), seen (the outcomes of
\* the initialize calls of its user that settled), waited (a restore call sat
\* out the 2000 ms wait on a registered client and found it still not ready).
\* attempts is the counter of the readiness wait of a Gateway call, route
\* tells that the call came through the messages route, id tells the Gateway
\* calls of a user apart.  Of sendMessage: text is the message, senderr the
\* message of the error chat.sendMessage rejected with, recent the history
\* the verification fetched, value the id returned, sends how often
\* chat.sendMessage was awaited.  Of getChats: fmt holds
\* the locals of the callback of each chat, list is the array returned.
\* stages are the awaits a Gateway call began after its first transport call,
\* and fetched tells how the fetch of the history, of the chats or of the
\* messages ended.  Of getChatMessages: limit is the limit handed to
\* chat.fetchMessages, msgs the messages it resolved with, formatted the
\* array returned.
NewCall(kind, u, pc, op, own, client, result) ==
  [kind |-> kind, user |-> u, pc |-> pc, op |-> op, own |-> own,
   client |-> client, result |-> result, nofiles |-> ~sessionFiles[u],
   disc |-> FALSE, seen |-> {}, waited |-> FALSE, attempts |-> 0,
   route |-> FALSE, id |-> 0, text |-> <<>>, senderr |-> "none",
   stages |-> {}, fetched |-> "none", recent |-> <<>>, value |-> <<>>,
   fmt |-> <<>>, list |-> <<>>, limit |-> 0, msgs |-> <<>>,
   formatted |-> <<>>, sends |-> 0]

\* the suspended initialize calls of u learn the outcomes of the initialize
\* calls of u in rs
Observe(cs, rs) ==
  {IF c.kind = "initialize"
     THEN [c EXCEPT !.seen = @ \cup
             {r.result : r \in {x \in rs : x.kind = "initialize" /\ x.user = c.user}}]
     ELSE c : c \in cs}

\* the callers suspended in `return await initPromise` on operation o
Awaiting(o) == {c \in calls : c.pc = "await" /\ c.op = o}

\* a caller that found the marker answers by itself instead of awaiting
AwaitResultOwnAnswer(call, res) ==
  IF call.own THEN res ELSE AlreadyInitializing

\* what a caller awaiting the promise of o gets when it settles with res
AwaitResult(call, res) == res

\* operation o settles with res: every caller awaiting it resumes
Deliver(o, res) ==
  /\ returned' = {[c EXCEPT !.pc = "returned", !.result = AwaitResult(c, res)] :
                    c \in Awaiting(o)}
  /\ calls' = Observe(calls \ Awaiting(o), returned')

\* a call settles without suspending
ReturnAtOnce(call) ==
  /\ returned' = {call}
  /\ calls' = Observe(calls, {call})

\* a call suspends
Suspend(call) ==
  /\ returned' = {}
  /\ calls' = calls \cup {call}

\* a suspended call settles or moves to its next await
Resume(old, new) ==
  IF new.pc = "returned"
    THEN /\ returned' = {new}
         /\ calls' = Observe(calls \ {old}, {new})
    ELSE /\ returned' = {}
         /\ calls' = (calls \ {old}) \cup {new}

\* no call is touched
Quiet == returned' = {} /\ UNCHANGED calls

\* the IIFE started by an initialize call records the IIFEs of the overlapping
\* initialize calls of the same user that saw no disconnect
Rivals(kind, u) ==
  IF kind = "initialize"
    THEN {c.op : c \in {x \in calls : x.kind = "initialize" /\ x.user = u
                                      /\ x.own /\ ~x.disc}}
    ELSE {}

NewOp(kind, u) ==
  [kind |-> kind, user |-> u, pc |-> "mkdir", rivals |-> Rivals(kind, u)]

\* data/users.json: not there, with no text, with text that is not JSON, or
\* with the JSON text of an array of users
NoFile == [kind |-> "missing", users |-> <<>>]

EmptyFile == [kind |-> "empty", users |-> <<>>]

CorruptFile == [kind |-> "corrupt", users |-> <<>>]

JsonFile(users) == [kind |-> "json", users |-> users]

\* `let isWritingUsers = false; const writeQueue = [];` and no request in
\* flight
InitUsers(file) ==
  /\ isWritingUsers = FALSE
  /\ writeQueue = <<>>
  /\ usersFile = file
  /\ requests = {}

InitService ==
  /\ activeClients = [u \in Users |-> NoClient]
  /\ qrCodes = [u \in Users |-> NoQr]
  /\ connectionStatus = [u \in Users |-> Absent]
  /\ initializingClients = [u \in Users |-> NoOp]
  /\ ops = <<>>
  /\ clients = [c \in OpIds |-> [phase |-> "none", info |-> FALSE, torn |-> FALSE]]
  /\ pendingQr = {}
  /\ calls = {}
  /\ returned = {}
  /\ sessionFiles \in
       {f \in [Users -> BOOLEAN] : \A u \in Users : budget.calls[u] = 0 => ~f[u]}

InitMaps == InitService /\ InitUsers(NoFile)

\* one user issues all the calls
OneUser(nCalls, nOps) ==
  [calls |-> [u \in Users |-> IF u = "u1" THEN nCalls ELSE 0], ops |-> nOps,
   reads |-> [u \in Users |-> 0]]

Init ==
  /\ budget = OneUser(MaxCalls, MaxOps)
  /\ InitMaps

InitWide ==
  /\ budget = OneUser(WideCalls, WideOps)
  /\ InitMaps

\* a caller issues one more call for user u
Issue(u) ==
  /\ budget.calls[u] > 0
  /\ budget' = [budget EXCEPT !.calls[u] = @ - 1]
  /\ UNCHANGED store

\* ------------------------------------------------------ initializeWhatsApp
\* the marker is left in place
InitFinallyMissing(m, u) == m

\* the `finally` of the IIFE
InitFinally(m, u) == MapDelete(m, u, NoOp)

\* the readiness of the stored client is not looked at
InitSeesReadyNever(c) == FALSE

\* `if (existingClient.info)` of initializeWhatsApp
InitSeesReady(c) == c # NoClient /\ ClientInfo(c)

\* `if (status === 'initializing' || ...)` of initializeWhatsApp, inside
\* `if (activeClients.has(userId))`
InitSeesHandshake(c, status) ==
  c # NoClient /\ status \in {"initializing", "restoring", "qr_ready"}

\* the synchronous part of a call: the checks, and the start of the IIFE up to
\* its first await (fs.mkdir)
InitializeWhatsApp(u) ==
  /\ Issue(u)
  /\ LET c == activeClients[u] IN
     IF InitSeesReady(c)
       THEN /\ ReturnAtOnce(NewCall("initialize", u, "returned", NoOp, FALSE, c,
                                    AlreadyConnected))
            /\ UNCHANGED <<registry, ops>>
     ELSE IF InitSeesHandshake(c, connectionStatus[u])
       THEN /\ ReturnAtOnce(NewCall("initialize", u, "returned", NoOp, FALSE, c,
                                    AlreadyInitializing))
            /\ UNCHANGED <<registry, ops>>
     ELSE IF initializingClients[u] # NoOp
       THEN /\ Suspend(NewCall("initialize", u, "await", initializingClients[u],
                               FALSE, c, NoResult))
            /\ UNCHANGED <<registry, ops>>
     ELSE /\ Len(ops) < budget.ops
          /\ ops' = Append(ops, NewOp("initialize", u))
          /\ initializingClients' = MapSet(initializingClients, u, Len(ops) + 1)
          /\ Suspend(NewCall("initialize", u, "await", Len(ops) + 1, TRUE, c,
                             NoResult))
          /\ UNCHANGED <<activeClients, qrCodes, connectionStatus>>
  /\ UNCHANGED <<clients, pendingQr, sessionFiles>>

\* fs.mkdir returned: construct the client, store it, register the handlers and
\* call client.initialize()
InitMkdirDone(o) ==
  /\ o \in 1..Len(ops)
  /\ ops[o].kind = "initialize"
  /\ ops[o].pc = "mkdir"
  /\ activeClients' = MapSet(activeClients, ops[o].user, o)
  /\ connectionStatus' = MapSet(connectionStatus, ops[o].user, "initializing")
  /\ clients' = [clients EXCEPT ![o].phase = "connecting"]
  /\ ops' = [ops EXCEPT ![o].pc = "connect"]
  /\ Quiet
  /\ UNCHANGED <<qrCodes, initializingClients, pendingQr, sessionFiles, budget, store>>

\* client.initialize() resolved: return, finally
InitConnectDone(o) ==
  /\ o \in 1..Len(ops)
  /\ ops[o].kind = "initialize"
  /\ ops[o].pc = "connect"
  /\ ops' = [ops EXCEPT ![o].pc = "resolved"]
  /\ initializingClients' = InitFinally(initializingClients, ops[o].user)
  /\ Deliver(o, Initialized)
  /\ UNCHANGED <<activeClients, qrCodes, connectionStatus, clients, pendingQr,
                 sessionFiles, budget, store>>

\* the catch forgets the pairing code
InitCatchQrCodesKept(m, u) == m

\* `qrCodes.delete(userId)` in the catch of the IIFE
InitCatchQrCodes(m, u) == MapDelete(m, u, NoQr)

\* fs.mkdir, new Client or client.initialize() threw: catch, finally, and the
\* outer catch of every caller awaiting the promise
InitFail(o) ==
  /\ o \in 1..Len(ops)
  /\ ops[o].kind = "initialize"
  /\ ops[o].pc \in {"mkdir", "connect"}
  /\ LET u == ops[o].user IN
     /\ activeClients' = MapDelete(activeClients, u, NoClient)
     /\ qrCodes' = InitCatchQrCodes(qrCodes, u)
     /\ connectionStatus' = MapDelete(connectionStatus, u, Absent)
     /\ initializingClients' =
          MapDelete(InitFinally(initializingClients, u), u, NoOp)
     /\ ops' = [ops EXCEPT ![o].pc = "rejected"]
     /\ Deliver(o, Thrown(o, ops[o].pc))
  /\ clients' = IF ops[o].pc = "connect"
                  THEN [clients EXCEPT ![o].phase = "closed"]
                  ELSE clients
  /\ UNCHANGED <<pendingQr, sessionFiles, budget, store>>

\* -------------------------------------------------- restoreWhatsAppSession
\* the `finally` of the IIFE
RestoreFinally(m, u) == MapDelete(m, u, NoOp)

\* `if (initializingClients.has(userId)) return await initPromise`, else the
\* call goes on to `await hasSessionFiles(userId)`
RestoreCheckPending(call) ==
  IF initializingClients[call.user] # NoOp
    THEN [call EXCEPT !.pc = "await", !.op = initializingClients[call.user]]
    ELSE [call EXCEPT !.pc = "files"]

\* `if (connectionStatus.get(userId) === 'restoring' || ...)` of restore
RestoreSeesHandshake(c, status) ==
  c # NoClient /\ status \in {"restoring", "initializing"}

\* the synchronous part of a call, up to its first await
RestoreWhatsAppSession(u) ==
  /\ Issue(u)
  /\ LET c == activeClients[u]
         call == NewCall("restore", u, "start", NoOp, FALSE, c, NoResult)
     IN IF c # NoClient /\ ClientInfo(c)
          THEN ReturnAtOnce([call EXCEPT !.pc = "returned",
                                         !.result = RestoreAlreadyConnected])
        ELSE IF RestoreSeesHandshake(c, connectionStatus[u])
          THEN Suspend([call EXCEPT !.pc = "wait"])
        ELSE Suspend(RestoreCheckPending(call))
  /\ UNCHANGED <<registry, ops, clients, pendingQr, sessionFiles>>

\* the 2000 ms timer of the existing-client wait fired
RestoreExistingWaitDone(call) ==
  /\ call \in calls
  /\ call.kind = "restore"
  /\ call.pc = "wait"
  /\ Resume(call,
       IF ClientInfo(call.client)
         THEN [call EXCEPT !.pc = "returned", !.result = RestoreAfterWait]
         ELSE RestoreCheckPending([call EXCEPT !.waited = TRUE]))
  /\ UNCHANGED <<registry, ops, clients, pendingQr, sessionFiles, budget, store>>

\* an unreadable directory counts as a session
hasSessionFilesAlways(userId) == TRUE

\* hasSessionFiles(userId): true iff data/<userId>/.wwebjs_auth can be read
\* and holds at least one entry; every error is turned into false
hasSessionFiles(userId) == sessionFiles[userId]

\* hasSessionFiles returned: no session, or start the IIFE up to fs.mkdir and
\* set the pending marker
RestoreFilesDone(call) ==
  /\ call \in calls
  /\ call.kind = "restore"
  /\ call.pc = "files"
  /\ IF ~hasSessionFiles(call.user)
       THEN /\ Resume(call, [call EXCEPT !.pc = "returned",
                                         !.result = NoSessionFound])
            /\ UNCHANGED <<ops, initializingClients>>
       ELSE /\ Len(ops) < budget.ops
            /\ ops' = Append(ops, NewOp("restore", call.user))
            /\ initializingClients' =
                 MapSet(initializingClients, call.user, Len(ops) + 1)
            /\ Resume(call, [call EXCEPT !.pc = "await", !.op = Len(ops) + 1,
                                         !.own = TRUE])
  /\ UNCHANGED <<activeClients, qrCodes, connectionStatus, clients, pendingQr,
                 sessionFiles, budget, store>>

\* fs.mkdir returned: construct the client, store it, register the handlers and
\* call client.initialize()
RestoreMkdirDone(o) ==
  /\ o \in 1..Len(ops)
  /\ ops[o].kind = "restore"
  /\ ops[o].pc = "mkdir"
  /\ activeClients' = MapSet(activeClients, ops[o].user, o)
  /\ connectionStatus' = MapSet(connectionStatus, ops[o].user, "restoring")
  /\ clients' = [clients EXCEPT ![o].phase = "connecting"]
  /\ ops' = [ops EXCEPT ![o].pc = "connect"]
  /\ Quiet
  /\ UNCHANGED <<qrCodes, initializingClients, pendingQr, sessionFiles, budget, store>>

\* client.initialize() resolved: start the 2000 ms timer
RestoreConnectDone(o) ==
  /\ o \in 1..Len(ops)
  /\ ops[o].kind = "restore"
  /\ ops[o].pc = "connect"
  /\ ops' = [ops EXCEPT ![o].pc = "wait"]
  /\ Quiet
  /\ UNCHANGED <<registry, clients, pendingQr, sessionFiles, budget, store>>

\* client.info is not looked at after the wait
RestoreTimerResultPending(o) == NotConnectedYet

\* `if (client.info) return {connected: true, ...}; return {connected: false, ...}`
RestoreTimerResult(o) == IF ClientInfo(o) THEN RestoredOk ELSE NotConnectedYet

\* the timer fired: `if (client.info)`, return, finally
RestoreTimerDone(o) ==
  /\ o \in 1..Len(ops)
  /\ ops[o].kind = "restore"
  /\ ops[o].pc = "wait"
  /\ LET u == ops[o].user IN
     /\ connectionStatus' =
          IF ClientInfo(o) THEN MapSet(connectionStatus, u, "connected")
          ELSE connectionStatus
     /\ ops' = [ops EXCEPT ![o].pc = "resolved"]
     /\ initializingClients' = RestoreFinally(initializingClients, u)
     /\ Deliver(o, RestoreTimerResult(o))
  /\ UNCHANGED <<activeClients, qrCodes, clients, pendingQr, sessionFiles, budget, store>>

\* fs.mkdir, new Client or client.initialize() threw: catch, finally, and the
\* outer catch of every caller awaiting the promise
RestoreFail(o) ==
  /\ o \in 1..Len(ops)
  /\ ops[o].kind = "restore"
  /\ ops[o].pc \in {"mkdir", "connect"}
  /\ LET u == ops[o].user IN
     /\ activeClients' = MapDelete(activeClients, u, NoClient)
     /\ connectionStatus' = MapDelete(connectionStatus, u, Absent)
     /\ initializingClients' =
          MapDelete(RestoreFinally(initializingClients, u), u, NoOp)
     /\ ops' = [ops EXCEPT ![o].pc = "rejected"]
     /\ Deliver(o, Thrown(o, ops[o].pc))
  /\ clients' = IF ops[o].pc = "connect"
                  THEN [clients EXCEPT ![o].phase = "closed"]
                  ELSE clients
  /\ UNCHANGED <<qrCodes, pendingQr, sessionFiles, budget, store>>

\* ------------------------------------------------------ disconnectWhatsApp
\* the suspended calls of u have seen a disconnect start
MarkDisconnect(cs, u) ==
  {IF c.user = u THEN [c EXCEPT !.disc = TRUE] ELSE c : c \in cs}

\* the pending markers of all users are dropped
DisconnectMarkerAll(m, u) == [x \in DOMAIN m |-> NoOp]

\* `initializingClients.delete(userId)` at the start of disconnectWhatsApp
DisconnectMarker(m, u) == MapDelete(m, u, NoOp)

\* the synchronous part: drop the pending marker, then logout the stored
\* client, or clear the maps at once when there is none
DisconnectWhatsApp(u) ==
  /\ Issue(u)
  /\ initializingClients' = DisconnectMarker(initializingClients, u)
  /\ LET c == activeClients[u] IN
     IF c # NoClient
       THEN /\ returned' = {}
            /\ calls' = MarkDisconnect(calls, u) \cup
                 {NewCall("disconnect", u, "teardown", NoOp, FALSE, c, NoResult)}
            /\ UNCHANGED <<activeClients, qrCodes, connectionStatus>>
       ELSE /\ returned' =
                 {NewCall("disconnect", u, "returned", NoOp, FALSE, c, Disconnected)}
            /\ calls' = MarkDisconnect(calls, u)
            /\ activeClients' = MapDelete(activeClients, u, NoClient)
            /\ qrCodes' = MapDelete(qrCodes, u, NoQr)
            /\ connectionStatus' = MapDelete(connectionStatus, u, Absent)
  /\ UNCHANGED <<ops, clients, pendingQr, sessionFiles>>

\* client.logout() and then client.destroy() each returned or threw (the
\* errors are logged): clear the maps.  Nothing reads the call between the two
\* awaits, so they are one suspension; a destroy that threw leaves the client
\* running (torn records that its teardown was attempted).
DisconnectTeardownDone(call) ==
  /\ call \in calls
  /\ call.kind = "disconnect"
  /\ call.pc = "teardown"
  /\ activeClients' = MapDelete(activeClients, call.user, NoClient)
  /\ qrCodes' = MapDelete(qrCodes, call.user, NoQr)
  /\ connectionStatus' = MapDelete(connectionStatus, call.user, Absent)
  /\ \E destroyed \in BOOLEAN :
       clients' = [clients EXCEPT
         ![call.client].torn = TRUE,
         ![call.client].phase = IF destroyed THEN "closed" ELSE @]
  /\ Resume(call, [call EXCEPT !.pc = "returned", !.result = Disconnected])
  /\ UNCHANGED <<initializingClients, ops, pendingQr, sessionFiles, budget, store>>

\* ------------------------------------------------------- lifecycle events
\* The transport emits, per client: 'qr' while it waits for a scan, then
\* 'authenticated' (credentials are stored) and 'ready' (client.info is set),
\* or 'auth_failure'; 'disconnected' once authenticated.  A closed client
\* emits nothing.  Each handler closes over the userId of its operation.
Live(c) ==
  c \in 1..Len(ops) /\ clients[c].phase \in {"connecting", "authenticated", "ready"}

\* client.on('qr', async ...) up to `await qrcode.toDataURL(qr)`; a client made
\* by restoreWhatsAppSession has no 'qr' handler
OnQr(c, n) ==
  /\ Live(c)
  /\ clients[c].phase = "connecting"
  /\ ops[c].kind = "initialize"
  /\ pendingQr' = pendingQr \cup {<<c, n>>}
  /\ Quiet
  /\ UNCHANGED <<registry, ops, clients, sessionFiles, budget, store>>

\* connectionStatus after toDataURL resolved
QrStatus(m, u) == MapSet(m, u, "qr_ready")

\* toDataURL resolved: store the code and set the status
OnQrConverted(c, n) ==
  /\ <<c, n>> \in pendingQr
  /\ pendingQr' = pendingQr \ {<<c, n>>}
  /\ qrCodes' = MapSet(qrCodes, ops[c].user, toDataURL(n))
  /\ connectionStatus' = QrStatus(connectionStatus, ops[c].user)
  /\ Quiet
  /\ UNCHANGED <<activeClients, initializingClients, ops, clients, sessionFiles,
                 budget, store>>

\* toDataURL threw: the error is logged
OnQrError(c, n) ==
  /\ <<c, n>> \in pendingQr
  /\ pendingQr' = pendingQr \ {<<c, n>>}
  /\ Quiet
  /\ UNCHANGED <<registry, ops, clients, sessionFiles, budget, store>>

\* qrCodes after 'ready', by the operation that registered the handler
ReadyQrCodes(kind, m, u) ==
  IF kind = "initialize" THEN MapDelete(m, u, NoQr) ELSE m

\* the ready handler leaves the status as it is
ReadyStatusKept(m, u) == m

\* connectionStatus after 'ready'
ReadyStatus(m, u) == MapSet(m, u, "connected")

OnReady(c) ==
  /\ Live(c)
  /\ clients[c].phase = "authenticated"
  /\ clients' = [clients EXCEPT ![c].phase = "ready", ![c].info = TRUE]
  /\ connectionStatus' = ReadyStatus(connectionStatus, ops[c].user)
  /\ qrCodes' = ReadyQrCodes(ops[c].kind, qrCodes, ops[c].user)
  /\ Quiet
  /\ UNCHANGED <<activeClients, initializingClients, ops, pendingQr,
                 sessionFiles, budget, store>>

\* the suspended calls of u have seen credentials appear on disk
SawFiles(cs, u) ==
  {IF c.user = u THEN [c EXCEPT !.nofiles = FALSE] ELSE c : c \in cs}

OnAuthenticated(c) ==
  /\ Live(c)
  /\ clients[c].phase = "connecting"
  /\ clients' = [clients EXCEPT ![c].phase = "authenticated"]
  /\ connectionStatus' = MapSet(connectionStatus, ops[c].user, "authenticated")
  /\ sessionFiles' = [sessionFiles EXCEPT ![ops[c].user] = TRUE]
  /\ returned' = {}
  /\ calls' = SawFiles(calls, ops[c].user)
  /\ UNCHANGED <<activeClients, qrCodes, initializingClients, ops, pendingQr, budget, store>>

\* qrCodes after 'auth_failure' or 'disconnected'
ClosedQrCodes(kind, m, u) ==
  IF kind = "initialize" THEN MapDelete(m, u, NoQr) ELSE m

OnAuthFailure(c) ==
  /\ Live(c)
  /\ clients[c].phase = "connecting"
  /\ clients' = [clients EXCEPT ![c].phase = "closed"]
  /\ connectionStatus' = MapSet(connectionStatus, ops[c].user, "auth_failure")
  /\ activeClients' = MapDelete(activeClients, ops[c].user, NoClient)
  /\ qrCodes' = ClosedQrCodes(ops[c].kind, qrCodes, ops[c].user)
  /\ Quiet
  /\ UNCHANGED <<initializingClients, ops, pendingQr, sessionFiles, budget, store>>

OnDisconnected(c) ==
  /\ Live(c)
  /\ clients[c].phase \in {"authenticated", "ready"}
  /\ clients' = [clients EXCEPT ![c].phase = "closed"]
  /\ connectionStatus' = MapSet(connectionStatus, ops[c].user, "disconnected")
  /\ activeClients' = MapDelete(activeClients, ops[c].user, NoClient)
  /\ qrCodes' = ClosedQrCodes(ops[c].kind, qrCodes, ops[c].user)
  /\ Quiet
  /\ UNCHANGED <<initializingClients, ops, pendingQr, sessionFiles, budget, store>>

\* ---------------------------------------------------------- specification
Next ==
  \/ \E u \in Users : InitializeWhatsApp(u)
  \/ \E u \in Users : RestoreWhatsAppSession(u)
  \/ \E u \in Users : DisconnectWhatsApp(u)
  \/ \E o \in OpIds : InitMkdirDone(o)
  \/ \E o \in OpIds : InitConnectDone(o)
  \/ \E o \in OpIds : InitFail(o)
  \/ \E call \in calls : RestoreExistingWaitDone(call)
  \/ \E call \in calls : RestoreFilesDone(call)
  \/ \E o \in OpIds : RestoreMkdirDone(o)
  \/ \E o \in OpIds : RestoreConnectDone(o)
  \/ \E o \in OpIds : RestoreTimerDone(o)
  \/ \E o \in OpIds : RestoreFail(o)
  \/ \E call \in calls : DisconnectTeardownDone(call)
  \/ \E c \in OpIds, n \in QrPayloads : OnQr(c, n)
  \/ \E c \in OpIds, n \in QrPayloads : OnQrConverted(c, n)
  \/ \E c \in OpIds, n \in QrPayloads : OnQrError(c, n)
  \/ \E c \in OpIds : OnAuthenticated(c)
  \/ \E c \in OpIds : OnReady(c)
  \/ \E c \in OpIds : OnAuthFailure(c)
  \/ \E c \in OpIds : OnDisconnected(c)

Spec == Init /\ [][Next]_vars

SpecWide == InitWide /\ [][Next]_vars

\* ---------------------------------------------------------------- Gateway
\* a caller issues one more Gateway call for user u
IssueRead(u) ==
  /\ budget.reads[u] > 0
  /\ budget' = [budget EXCEPT !.reads[u] = @ - 1]
  /\ UNCHANGED store

\* the loop runs once more than the ceiling
PollAgainOnceMore(attempts) == attempts <= MaxAttempts

\* `attempts < 20` of `while (!client.info && attempts < 20)`
PollAgain(attempts) == attempts < MaxAttempts

\* `if (!client) throw ...; if (!client.info) { let attempts = 0; while ...`
\* up to the first await: of the timer, or of the transport call
ReadinessWait(kind, u, route) ==
  LET c == getClient(u)
      call == [NewCall(kind, u, "poll", NoOp, FALSE, c, NoResult)
                 EXCEPT !.route = route, !.id = budget.reads[u]]
  IN IF c = NoClient
       THEN ReturnAtOnce([call EXCEPT !.pc = "returned",
                                      !.result = NotInitializedError])
     ELSE IF ClientInfo(c)
       THEN Suspend([call EXCEPT !.pc = "transport"])
     ELSE IF PollAgain(0)
       THEN Suspend(call)
     ELSE ReturnAtOnce([call EXCEPT !.pc = "returned",
                                    !.result = NotReadyError(kind)])

GetChats(u) ==
  /\ IssueRead(u)
  /\ ReadinessWait("getChats", u, FALSE)
  /\ UNCHANGED <<registry, ops, clients, pendingQr, sessionFiles>>

GetChatMessages(u) ==
  /\ IssueRead(u)
  /\ ReadinessWait("getChatMessages", u, FALSE)
  /\ UNCHANGED <<registry, ops, clients, pendingQr, sessionFiles>>

GetChatCount(u) ==
  /\ IssueRead(u)
  /\ ReadinessWait("getChatCount", u, FALSE)
  /\ UNCHANGED <<registry, ops, clients, pendingQr, sessionFiles>>

\* GET /api/whatsapp/chats/:userId/:chatId/messages: answer 400 unless a client
\* is registered and the status is connected, else call getChatMessages
MessagesRoute(u) ==
  /\ IssueRead(u)
  /\ IF getClient(u) = NoClient \/ getConnectionStatus(u) # "connected"
       THEN ReturnAtOnce(
              [NewCall("getChatMessages", u, "returned", NoOp, FALSE,
                       getClient(u), RouteNotConnected)
                 EXCEPT !.route = TRUE, !.id = budget.reads[u]])
       ELSE ReadinessWait("getChatMessages", u, TRUE)
  /\ UNCHANGED <<registry, ops, clients, pendingQr, sessionFiles>>

\* the 500 ms timer fired: `attempts++`, the loop condition, and after the
\* loop `if (!client.info) throw ...`
ReadinessPollDone(call) ==
  /\ call \in calls
  /\ call.pc = "poll"
  /\ LET polled == [call EXCEPT !.attempts = @ + 1] IN
     Resume(call,
       IF ~ClientInfo(call.client) /\ PollAgain(polled.attempts)
         THEN polled
       ELSE IF ~ClientInfo(call.client)
         THEN [polled EXCEPT !.pc = "returned",
                             !.result = NotReadyError(call.kind)]
       ELSE [polled EXCEPT !.pc = "transport"])
  /\ UNCHANGED <<registry, ops, clients, pendingQr, sessionFiles, budget, store>>

\* ------------------------------------------------------------ sendMessage
\* a message text or body is a sequence of characters
Chars == {"a", "b", " "}

MaxText == 2

Strings == UNION {[1..n -> Chars] : n \in 0..MaxText}

\* the `message` of the send route: `if (!message)` answers 400
Texts == Strings \ {<<>>}

RECURSIVE TrimStart(_)
TrimStart(s) ==
  IF s # <<>> /\ Head(s) = " " THEN TrimStart(Tail(s)) ELSE s

RECURSIVE TrimEnd(_)
TrimEnd(s) ==
  IF s # <<>> /\ s[Len(s)] = " " THEN TrimEnd(SubSeq(s, 1, Len(s) - 1)) ELSE s

\* String.prototype.trim
Trim(s) == TrimEnd(TrimStart(s))

\* String.prototype.includes: t occurs in s as a contiguous run
Includes(s, t) ==
  \E i \in 0..(Len(s) - Len(t)) : SubSeq(s, i + 1, i + Len(t)) = t

\* `msgBody === sentMessage || msgBody.includes(sentMessage) ||
\*  sentMessage.includes(msgBody)`
TextMatch(msgBody, sentMessage) ==
  \/ msgBody = sentMessage
  \/ Includes(msgBody, sentMessage)
  \/ Includes(sentMessage, msgBody)

\* `timeDiff < 15`: own messages older than this are not looked at
RecentWindow == 15

\* `timeDiff < 5`: an own message this recent is taken without a text match
VeryRecentWindow == 5

\* timeDiff of a message of the history, in seconds
Ages == {2, 5, 15}

\* messages chat.fetchMessages({ limit: 10 }) hands back in the model
MaxHistory == 2

Messages == [fromMe : BOOLEAN, age : Ages, body : Strings]

Histories == UNION {[1..n -> Messages] : n \in 0..MaxHistory}

\* msg.id._serialized of the i-th message of the history
MessageId(i) == <<"msg", i>>

\* sentMessage.id._serialized of the message chat.sendMessage resolved with
SentId == <<"sent">>

\* `temp_${Date.now()}`
TempId == <<"temp_">>

NoId == <<>>

\* the loop without the comparison of the texts
RECURSIVE ScanVeryRecent(_, _, _)
ScanVeryRecent(recentMessages, i, message) ==
  IF i > Len(recentMessages) THEN NoId
  ELSE IF recentMessages[i].fromMe /\ recentMessages[i].age < VeryRecentWindow
    THEN MessageId(i)
  ELSE ScanVeryRecent(recentMessages, i + 1, message)

\* the `for (const msg of recentMessages)` loop from position i on: the id
\* of the first message that ends the loop, NoId when none does
RECURSIVE ScanRecent(_, _, _)
ScanRecent(recentMessages, i, message) ==
  IF i > Len(recentMessages) THEN NoId
  ELSE LET msg == recentMessages[i] IN
    IF msg.fromMe /\ msg.age < RecentWindow
      THEN IF msg.body # <<>> /\ TextMatch(Trim(msg.body), Trim(message))
             THEN MessageId(i)
           ELSE IF msg.age < VeryRecentWindow
             THEN MessageId(i)
           ELSE ScanRecent(recentMessages, i + 1, message)
      ELSE ScanRecent(recentMessages, i + 1, message)

\* the id of whatever message comes first in the history
VerifySentAnyMessage(fetched, recentMessages, message) ==
  IF fetched /\ recentMessages # <<>> THEN MessageId(1) ELSE TempId

\* the verification after the settle wait: the id found in the history, else
\* (nothing found, or fetchMessages threw) the placeholder
VerifySent(fetched, recentMessages, message) ==
  IF fetched /\ ScanRecent(recentMessages, 1, message) # NoId
    THEN ScanRecent(recentMessages, 1, message)
    ELSE TempId

\* sendError.message of the errors chat.sendMessage rejects with ("" stands
\* for an error without a message)
SendErrorMessages ==
  {"", "Evaluation failed: markedUnread",
   "Cannot read properties of undefined (reading 'id')",
   "Protocol error: Session closed"}

NoError == "none"

\* sendError.message.includes(phrase)
ErrorIncludes(message, phrase) ==
  <<message, phrase>> \in
    {<<"Evaluation failed: markedUnread", "markedUnread">>,
     <<"Cannot read properties of undefined (reading 'id')",
       "Cannot read properties of undefined">>}

\* every error that carries a message counts as benign
IsBenignAnyMessage(message) == message # ""

\* `sendError.message && (sendError.message.includes('markedUnread') ||
\*  sendError.message.includes('Cannot read properties of undefined'))`
IsBenign(message) ==
  /\ message # ""
  /\ \/ ErrorIncludes(message, "markedUnread")
     \/ ErrorIncludes(message, "Cannot read properties of undefined")

ChatNotFoundError == GatewayError("Chat not found")

\* the guard looks at the registration only
SendSeesClient(c) == c # NoClient

\* `client && client.info` of sendMessage
SendSeesReady(c) == c # NoClient /\ ClientInfo(c)

\* `if (!client || !client.info) throw ...` of sendMessage, then the await of
\* client.getChatById
SendMessage(u, message) ==
  /\ IssueRead(u)
  /\ LET c == getClient(u)
         call == [NewCall("sendMessage", u, "chat", NoOp, FALSE, c, NoResult)
                    EXCEPT !.id = budget.reads[u], !.text = message]
     IN IF SendSeesReady(c)
          THEN Suspend(call)
          ELSE ReturnAtOnce([call EXCEPT !.pc = "returned",
                                         !.result = NotConnectedError])
  /\ UNCHANGED <<registry, ops, clients, pendingQr, sessionFiles>>

\* client.getChatById settled: with the chat, with nothing (`if (!chat)
\* throw ...`), or by throwing; with the chat, chat.sendMessage is awaited
SendChatDone(call, found) ==
  /\ call \in calls
  /\ call.kind = "sendMessage"
  /\ call.pc = "chat"
  /\ Resume(call,
       CASE found = "chat" -> [call EXCEPT !.pc = "send", !.sends = @ + 1,
                                           !.stages = @ \cup {"send"}]
         [] found = "null" -> [call EXCEPT !.pc = "returned",
                                           !.result = ChatNotFoundError]
         [] OTHER -> [call EXCEPT !.pc = "returned", !.result = TransportError])
  /\ UNCHANGED <<registry, ops, clients, pendingQr, sessionFiles, budget, store>>

\* chat.sendMessage resolved: `return sentMessage.id._serialized`
SendSent(call) ==
  /\ call \in calls
  /\ call.pc = "send"
  /\ Resume(call, [call EXCEPT !.pc = "returned",
                               !.result = GatewayOk("sendMessage"),
                               !.value = SentId])
  /\ UNCHANGED <<registry, ops, clients, pendingQr, sessionFiles, budget, store>>

\* chat.sendMessage rejected: a benign error starts the 2000 ms settle wait,
\* any other is thrown on (`throw sendError`, rethrown by the outer catch)
SendFailed(call, message) ==
  /\ call \in calls
  /\ call.pc = "send"
  /\ Resume(call,
       IF IsBenign(message)
         THEN [call EXCEPT !.pc = "settle", !.senderr = message,
                           !.stages = @ \cup {"settle"}]
         ELSE [call EXCEPT !.pc = "returned", !.senderr = message,
                           !.result = GatewayError(message)])
  /\ UNCHANGED <<registry, ops, clients, pendingQr, sessionFiles, budget, store>>

\* after the settle wait chat.sendMessage is awaited once more
AfterSettleResend(call) ==
  [call EXCEPT !.pc = "send", !.sends = @ + 1]

\* after the settle wait chat.fetchMessages({ limit: 10 }) is awaited
AfterSettle(call) ==
  [call EXCEPT !.pc = "verify", !.stages = @ \cup {"verify"}]

\* the settle timer fired
SendSettleDone(call) ==
  /\ call \in calls
  /\ call.pc = "settle"
  /\ Resume(call, AfterSettle(call))
  /\ UNCHANGED <<registry, ops, clients, pendingQr, sessionFiles, budget, store>>

\* chat.fetchMessages settled (fetched: it resolved, with recentMessages):
\* the scan, `return verifiedMessageId`, else `return temp_...`
SendVerifyDone(call, fetched, recentMessages) ==
  /\ call \in calls
  /\ call.pc = "verify"
  /\ Resume(call, [call EXCEPT !.pc = "returned",
                               !.result = GatewayOk("sendMessage"),
                               !.fetched = IF fetched THEN "ok" ELSE "throws",
                               !.recent = recentMessages,
                               !.value = VerifySent(fetched, recentMessages,
                                                    call.text)])
  /\ UNCHANGED <<registry, ops, clients, pendingQr, sessionFiles, budget, store>>

\* --------------------------------------------------------------- getChats
\* conversations client.getChats() resolves with; the i-th one has id i
MaxChats == 2

\* the locals of one run of the `chats.map(async (chat) => ...)` callback up
\* to its first await, of chat.getContact() raced with its timer.  pc: the
\* sub-fetch awaited; name: contactName comes from the contact or the chat;
\* type: lastMessageType; image: lastMessageImage is set; late: the
\* sub-fetches abandoned by their timers that have not settled yet; out: how
\* the races of the callback ended, in order
FormatStart ==
  [pc |-> "contact", name |-> "chat", avatar |-> "null", type |-> "none",
   image |-> FALSE, late |-> {}, out |-> <<>>]

\* the object the callback returns for chat i; timestamp is '' unless a last
\* message was fetched
Entry(i, f) ==
  [id |-> i, name |-> f.name, avatar |-> f.avatar, lastMessageType |-> f.type,
   lastMessageImage |-> f.image,
   timestamp |-> IF f.type = "none" THEN "" ELSE "time"]

\* the comparator with its two signs exchanged
CompareTimestampsFlipped(a, b) ==
  IF a.timestamp = "" /\ b.timestamp = "" THEN 0
  ELSE IF a.timestamp = "" THEN -1
  ELSE IF b.timestamp = "" THEN 1
  ELSE 0

\* the comparator of formattedChats.sort
CompareTimestamps(a, b) ==
  IF a.timestamp = "" /\ b.timestamp = "" THEN 0
  ELSE IF a.timestamp = "" THEN 1
  ELSE IF b.timestamp = "" THEN -1
  ELSE 0

\* one insertion of a stable sort: x goes behind every element that the
\* comparator does not put after it
RECURSIVE SortInsert(_, _)
SortInsert(sorted, x) ==
  IF sorted # <<>> /\ CompareTimestamps(sorted[Len(sorted)], x) > 0
    THEN Append(SortInsert(SubSeq(sorted, 1, Len(sorted) - 1), x),
                sorted[Len(sorted)])
    ELSE Append(sorted, x)

\* Array.prototype.sort, which is stable, on the first n entries
RECURSIVE SortChats(_, _)
SortChats(entries, n) ==
  IF n = 0 THEN <<>> ELSE SortInsert(SortChats(entries, n - 1), entries[n])

\* what `await Promise.all(...)`, the sort and the return make of the
\* callbacks' results
FormattedChats(fmt) ==
  SortChats([i \in 1..Len(fmt) |-> Entry(i, fmt[i])], Len(fmt))

\* the check of the empty list is left out
NoChatsNever(n) == FALSE

\* `chats.length === 0`
NoChats(n) == n = 0

\* client.getChats() resolved with n conversations: `return []`, else every
\* callback runs to its first await
GetChatsListed(call, n) ==
  /\ call \in calls
  /\ call.kind = "getChats"
  /\ call.pc = "transport"
  /\ Resume(call,
       IF NoChats(n)
         THEN [call EXCEPT !.pc = "returned", !.fetched = "ok",
                           !.result = GatewayOk("getChats")]
         ELSE [call EXCEPT !.pc = "format", !.fetched = "ok",
                           !.stages = @ \cup {"format"},
                           !.fmt = [i \in 1..n |-> FormatStart]])
  /\ UNCHANGED <<registry, ops, clients, pendingQr, sessionFiles, budget, store>>

\* the catch also drops the registration of the user
GatewayCatchUnregisters(m, userId) == MapDelete(m, userId, NoClient)

\* the outer catch of a Gateway function: console.error and `throw error`;
\* activeClients stays as it is
GatewayCatch(m, userId) == m

\* client.getChats() rejected: the outer catch logs and rethrows
GetChatsListFailed(call) ==
  /\ call \in calls
  /\ call.kind = "getChats"
  /\ call.pc = "transport"
  /\ Resume(call, [call EXCEPT !.pc = "returned", !.fetched = "throws",
                               !.result = TransportError])
  /\ activeClients' = GatewayCatch(activeClients, call.user)
  /\ UNCHANGED <<qrCodes, connectionStatus, initializingClients, ops, clients,
                 pendingQr, sessionFiles, budget, store>>

\* a rejected sub-fetch rejects the whole call
SubFetchUnguarded(call, i, f) ==
  [call EXCEPT !.pc = "returned", !.result = TransportError]

\* a sub-fetch of chat i failed or lost its race: the catch around it leaves
\* the callback with the locals f, and the call goes on
SubFetchCaught(call, i, f) == [call EXCEPT !.fmt[i] = f]

\* the callback of chat i went on to the locals f: when every callback has
\* returned, Promise.all resolves and the call returns the sorted list
Formatted(call, i, f) ==
  LET new == [call EXCEPT !.fmt[i] = f] IN
  Resume(call,
    IF \A j \in 1..Len(new.fmt) : new.fmt[j].pc = "done"
      THEN [new EXCEPT !.pc = "returned", !.result = GatewayOk("getChats"),
                       !.list = FormattedChats(new.fmt)]
      ELSE new)

\* the same for a callback that went through a catch
FormattedCaught(call, i, f) ==
  LET new == SubFetchCaught(call, i, f) IN
  Resume(call,
    IF new.pc # "returned" /\ \A j \in 1..Len(new.fmt) : new.fmt[j].pc = "done"
      THEN [new EXCEPT !.pc = "returned", !.result = GatewayOk("getChats"),
                       !.list = FormattedChats(new.fmt)]
      ELSE new)

Formatting(call, i, pc) ==
  /\ call \in calls
  /\ call.pc = "format"
  /\ i \in 1..Len(call.fmt)
  /\ call.fmt[i].pc = pc

\* chat.getContact() won its race: contactName and phoneNumber come from the
\* contact, and contact.getProfilePicUrl() is raced with its timer
ContactDone(call, i) ==
  /\ Formatting(call, i, "contact")
  /\ Formatted(call, i, [call.fmt[i] EXCEPT !.pc = "avatar", !.name = "contact",
                                            !.out = Append(@, "ok")])
  /\ UNCHANGED <<registry, ops, clients, pendingQr, sessionFiles, budget, store>>

\* contact.getProfilePicUrl() won its race
AvatarDone(call, i) ==
  /\ Formatting(call, i, "avatar")
  /\ Formatted(call, i, [call.fmt[i] EXCEPT !.pc = "last", !.avatar = "url",
                                            !.out = Append(@, "ok")])
  /\ UNCHANGED <<registry, ops, clients, pendingQr, sessionFiles, budget, store>>

\* the types of the last message the model tells apart: an image with media,
\* an image without, a text
LastMessages == {"image", "image_nomedia", "chat"}

\* what follows the last-message fetch up to the next await or the return
AfterLast(f, last) ==
  CASE last = "image" -> [f EXCEPT !.pc = "image", !.type = "image"]
    [] last = "image_nomedia" -> [f EXCEPT !.pc = "done", !.type = "image"]
    [] last = "chat" -> [f EXCEPT !.pc = "done", !.type = "chat"]
    [] OTHER -> [f EXCEPT !.pc = "done"]

\* chat.fetchMessages({ limit: 1 }) won its race, with the message `last`
\* or ("none") with an empty list
LastMessageDone(call, i, last) ==
  /\ Formatting(call, i, "last")
  /\ Formatted(call, i, [AfterLast(call.fmt[i], last) EXCEPT
                           !.out = Append(@, last)])
  /\ UNCHANGED <<registry, ops, clients, pendingQr, sessionFiles, budget, store>>

\* lastMessage.downloadMedia() won its race: the preview is kept when the
\* media is there and small enough
ImageDone(call, i, small) ==
  /\ Formatting(call, i, "image")
  /\ Formatted(call, i, [call.fmt[i] EXCEPT
                           !.pc = "done", !.image = small,
                           !.out = Append(@, IF small THEN "small" ELSE "large")])
  /\ UNCHANGED <<registry, ops, clients, pendingQr, sessionFiles, budget, store>>

\* where the callback goes on when the sub-fetch at pc is given up: the
\* catch of the contact block skips the avatar
AfterCatch(pc) == IF pc \in {"contact", "avatar"} THEN "last" ELSE "done"

\* the sub-fetch chat i awaits rejected
SubFetchFailed(call, i) ==
  /\ call \in calls
  /\ call.pc = "format"
  /\ i \in 1..Len(call.fmt)
  /\ call.fmt[i].pc # "done"
  /\ FormattedCaught(call, i,
       [call.fmt[i] EXCEPT !.pc = AfterCatch(call.fmt[i].pc),
                           !.out = Append(@, "fail")])
  /\ UNCHANGED <<registry, ops, clients, pendingQr, sessionFiles, budget, store>>

\* the timer raced with the sub-fetch chat i awaits fired first: the race
\* rejects, and the sub-fetch stays in flight
SubFetchTimeout(call, i) ==
  /\ call \in calls
  /\ call.pc = "format"
  /\ i \in 1..Len(call.fmt)
  /\ call.fmt[i].pc # "done"
  /\ FormattedCaught(call, i,
       [call.fmt[i] EXCEPT !.pc = AfterCatch(call.fmt[i].pc),
                           !.late = @ \cup {call.fmt[i].pc},
                           !.out = Append(@, "timeout")])
  /\ UNCHANGED <<registry, ops, clients, pendingQr, sessionFiles, budget, store>>

\* the late value is written into the locals of the callback
LateResultUsed(f, stage) ==
  CASE stage = "contact" -> [f EXCEPT !.name = "contact"]
    [] stage = "avatar" -> [f EXCEPT !.avatar = "url"]
    [] stage = "last" -> [f EXCEPT !.type = "chat"]
    [] OTHER -> [f EXCEPT !.image = TRUE]

\* a settled Promise.race ignores the promise that lost
LateResult(f, stage) == f

\* a sub-fetch abandoned by its timer settles while the call is still running
SubFetchLate(call, i, stage) ==
  /\ call \in calls
  /\ call.pc = "format"
  /\ i \in 1..Len(call.fmt)
  /\ stage \in call.fmt[i].late
  /\ Resume(call, [call EXCEPT !.fmt[i] =
                     [LateResult(call.fmt[i], stage) EXCEPT !.late = @ \ {stage}]])
  /\ UNCHANGED <<registry, ops, clients, pendingQr, sessionFiles, budget, store>>

\* -------------------------------------------------------- getChatMessages
\* `{ limit: 100 }` of chat.fetchMessages
MessageLimit == 100

\* msg.ack of a message that was read, and of one that was delivered
AckRead == 3

AckDelivered == 2

\* the acknowledgement ordinals of the transport: error, pending, server,
\* device, read, played
Acks == {-1, 0, 1, 2, 3, 4}

\* messages chat.fetchMessages hands back in the model
MaxMessages == 2

ChatMessages == [fromMe : BOOLEAN, ack : Acks, body : {<<>>, <<"a">>}]

MessageLists == UNION {[1..n -> ChatMessages] : n \in 0..MaxMessages}

Undefined == "undefined"

\* `[${msg.type}]`
TypeTag == <<"[", "type", "]">>

\* the status is derived from the ordinal whoever wrote the message
MessageStatusForAll(msg) ==
  IF msg.ack = AckRead THEN "read"
  ELSE IF msg.ack = AckDelivered THEN "delivered"
  ELSE "sent"

\* `isFromMe ? (msg.ack === 3 ? 'read' : msg.ack === 2 ? 'delivered' : 'sent')
\*  : undefined`
MessageStatus(msg) ==
  IF msg.fromMe
    THEN IF msg.ack = AckRead THEN "read"
         ELSE IF msg.ack = AckDelivered THEN "delivered"
         ELSE "sent"
    ELSE Undefined

\* the object the callback of messages.map returns for the i-th message
FormatMessage(msg, i) ==
  [id |-> MessageId(i),
   text |-> IF msg.body # <<>> THEN msg.body ELSE TypeTag,
   sender |-> IF msg.fromMe THEN "me" ELSE "them",
   status |-> MessageStatus(msg)]

\* messages.map(...)
FormatMessages(messages) ==
  [i \in 1..Len(messages) |-> FormatMessage(messages[i], i)]

\* `chat.fetchMessages` on the null client.getChatById resolved with
NullChatError == GatewayError("Cannot read properties of null (reading 'fetchMessages')")

\* client.getChatById settled: with the chat, chat.fetchMessages({ limit:
\* 100 }) is awaited; with nothing, the call on it throws; or it rejected.
\* The catch logs and rethrows
MessagesChatDone(call, found) ==
  /\ call \in calls
  /\ call.kind = "getChatMessages"
  /\ call.pc = "transport"
  /\ Resume(call,
       CASE found = "chat" -> [call EXCEPT !.pc = "fetch", !.limit = MessageLimit,
                                           !.stages = @ \cup {"fetch"}]
         [] found = "null" -> [call EXCEPT !.pc = "returned",
                                           !.result = NullChatError]
         [] OTHER -> [call EXCEPT !.pc = "returned", !.result = TransportError])
  /\ UNCHANGED <<registry, ops, clients, pendingQr, sessionFiles, budget, store>>

\* chat.fetchMessages resolved with messages: they are mapped and returned
MessagesFetched(call, messages) ==
  /\ call \in calls
  /\ call.kind = "getChatMessages"
  /\ call.pc = "fetch"
  /\ Resume(call, [call EXCEPT !.pc = "returned", !.fetched = "ok",
                               !.result = GatewayOk("getChatMessages"),
                               !.msgs = messages,
                               !.formatted = FormatMessages(messages)])
  /\ UNCHANGED <<registry, ops, clients, pendingQr, sessionFiles, budget, store>>

\* chat.fetchMessages rejected: the catch logs and rethrows
MessagesFetchFailed(call) ==
  /\ call \in calls
  /\ call.kind = "getChatMessages"
  /\ call.pc = "fetch"
  /\ Resume(call, [call EXCEPT !.pc = "returned", !.fetched = "throws",
                               !.result = TransportError])
  /\ UNCHANGED <<registry, ops, clients, pendingQr, sessionFiles, budget, store>>

\* the stages of getChatMessages with the fetched lists drawn from the given
\* set
MessageStages(lists) ==
  \/ \E u \in Users : GetChatMessages(u)
  \/ \E u \in Users : MessagesRoute(u)
  \/ \E call \in calls, found \in {"chat", "null", "throws"} :
       MessagesChatDone(call, found)
  \/ \E call \in {c \in calls : c.pc = "fetch"}, messages \in lists :
       MessagesFetched(call, messages)
  \/ \E call \in calls : MessagesFetchFailed(call)

\* ----------------------------------------------------------- getChatCount
\* client.getChats() of getChatCount settled: the function resolves with
\* the length, or rethrows the error
GatewayTransportDone(call) ==
  /\ call \in calls
  /\ call.kind = "getChatCount"
  /\ call.pc = "transport"
  /\ \E res \in {GatewayOk(call.kind), TransportError} :
       Resume(call, [call EXCEPT !.pc = "returned", !.result = res])
  /\ UNCHANGED <<registry, ops, clients, pendingQr, sessionFiles, budget, store>>

\* the inputs of the Gateway stages while the lifecycle runs beside them
GatewayTexts == {<<"a">>}

GatewayHistories == {<<>>, <<[fromMe |-> TRUE, age |-> 2, body |-> <<"a">>]>>}

GatewayChats == 1

GatewayMessageLists ==
  {<<>>, <<[fromMe |-> TRUE, ack |-> AckRead, body |-> <<"a">>]>>}

\* the stages of sendMessage with their inputs drawn from the given sets
SendStages(texts, histories) ==
  \/ \E u \in Users, message \in texts : SendMessage(u, message)
  \/ \E call \in calls, found \in {"chat", "null", "throws"} :
       SendChatDone(call, found)
  \/ \E call \in calls : SendSent(call)
  \/ \E call \in calls, message \in SendErrorMessages : SendFailed(call, message)
  \/ \E call \in calls : SendSettleDone(call)
  \/ \E call \in {c \in calls : c.pc = "verify"}, recentMessages \in histories :
       SendVerifyDone(call, TRUE, recentMessages)
  \/ \E call \in calls : SendVerifyDone(call, FALSE, <<>>)

\* the stages of getChats on lists of up to maxChats conversations
ChatStages(maxChats) ==
  \/ \E u \in Users : GetChats(u)
  \/ \E call \in calls, n \in 0..maxChats : GetChatsListed(call, n)
  \/ \E call \in calls : GetChatsListFailed(call)
  \/ \E call \in calls, i \in 1..maxChats : ContactDone(call, i)
  \/ \E call \in calls, i \in 1..maxChats : AvatarDone(call, i)
  \/ \E call \in calls, i \in 1..maxChats, last \in LastMessages \cup {"none"} :
       LastMessageDone(call, i, last)
  \/ \E call \in calls, i \in 1..maxChats, small \in BOOLEAN :
       ImageDone(call, i, small)
  \/ \E call \in calls, i \in 1..maxChats : SubFetchFailed(call, i)
  \/ \E call \in calls, i \in 1..maxChats : SubFetchTimeout(call, i)
  \/ \E call \in calls, i \in 1..maxChats,
         stage \in {"contact", "avatar", "last", "image"} :
       SubFetchLate(call, i, stage)

InitGateway ==
  /\ budget = [OneUser(GatewayCalls, GatewayOps) EXCEPT
                 !.reads = [u \in Users |-> IF u = "u1" THEN GatewayReads ELSE 0]]
  /\ InitMaps

NextGateway ==
  \/ Next
  \/ \E u \in Users : GetChatCount(u)
  \/ \E call \in calls : ReadinessPollDone(call)
  \/ MessageStages(GatewayMessageLists)
  \/ \E call \in calls : GatewayTransportDone(call)
  \/ SendStages(GatewayTexts, GatewayHistories)
  \/ ChatStages(GatewayChats)

SpecGateway == InitGateway /\ [][NextGateway]_vars

\* ------------------------------------------------- Gateway, ready client
\* calls of getChats / sendMessage made on the ready client
ReadyReads == 1

\* initializeWhatsApp of u1 went through and its client became ready; no call
\* is in flight
InitReady ==
  /\ budget = [OneUser(0, 1) EXCEPT
                 !.reads = [u \in Users |-> IF u = "u1" THEN ReadyReads ELSE 0]]
  /\ activeClients = [u \in Users |-> IF u = "u1" THEN 1 ELSE NoClient]
  /\ qrCodes = [u \in Users |-> NoQr]
  /\ connectionStatus = [u \in Users |-> IF u = "u1" THEN "connected" ELSE Absent]
  /\ initializingClients = [u \in Users |-> NoOp]
  /\ ops = <<[kind |-> "initialize", user |-> "u1", pc |-> "resolved",
              rivals |-> {}]>>
  /\ clients = [c \in OpIds |->
                  IF c = 1 THEN [phase |-> "ready", info |-> TRUE, torn |-> FALSE]
                  ELSE [phase |-> "none", info |-> FALSE, torn |-> FALSE]]
  /\ pendingQr = {}
  /\ calls = {}
  /\ returned = {}
  /\ sessionFiles = [u \in Users |-> u = "u1"]
  /\ InitUsers(NoFile)

\* sendMessage on the ready client
NextSend == SendStages(Texts, Histories)

SpecSend == InitReady /\ [][NextSend]_vars

\* getChats on the ready client
NextChats == ChatStages(MaxChats)

SpecChats == InitReady /\ [][NextChats]_vars

\* the timers of the sub-fetches fire, and client.getChats() settles
SpecChatsLive ==
  /\ SpecChats
  /\ WF_vars(\E call \in calls, i \in 1..MaxChats : SubFetchTimeout(call, i))
  /\ WF_vars(\E call \in calls, n \in 0..MaxChats : GetChatsListed(call, n))

\* getChatMessages on the ready client
NextMessages == MessageStages(MessageLists)

SpecMessages == InitReady /\ [][NextMessages]_vars

\* ------------------------------------------------------------- user store
\* index.js: readUsers, writeUsers and the register and login routes.
\* Strings are sequences of characters.
Alice == <<"a", "@", "x", ".", "c">>

AliceUpper == <<"A", "@", "x", ".", "c">>

Bob == <<"b", "@", "x", ".", "c">>

Padded == <<" ", "a", "@", "x", ".", "c">>

Emails == {Alice, AliceUpper, Bob, Padded}

Secret == <<"s", "e", "c", "r", "e", "t">>

\* String.prototype.toLowerCase, on the letters of Emails
toLowerCase(str) ==
  [i \in DOMAIN str |-> CASE str[i] = "A" -> "a" [] str[i] = "B" -> "b"
                          [] OTHER -> str[i]]

\* /^[^\s@]+@[^\s@]+\.[^\s@]+$/.test(email)
emailRegex(email) ==
  /\ \A k \in DOMAIN email : email[k] # " "
  /\ \E i \in DOMAIN email :
       /\ email[i] = "@"
       /\ i > 1
       /\ \A k \in DOMAIN email \ {i} : email[k] # "@"
       /\ \E j \in DOMAIN email : j > i + 1 /\ j < Len(email) /\ email[j] = "."

MinPassword == 6

\* the request bodies: of register, every email with a name and a password
\* that pass, and one body each with no name and with a short password; of
\* login (name is not read), a stored email in upper case, and bodies for the
\* 401 and 400 answers
RegisterBodies ==
  {[name |-> <<"n">>, email |-> e, password |-> Secret] : e \in Emails}
    \cup {[name |-> <<>>, email |-> Alice, password |-> Secret],
          [name |-> <<"n">>, email |-> Bob, password |-> <<"s">>]}

LoginBodies ==
  {[name |-> <<>>, email |-> AliceUpper, password |-> Secret],
   [name |-> <<>>, email |-> Alice, password |-> <<"s">>],
   [name |-> <<>>, email |-> <<>>, password |-> Secret]}

\* the status codes of the answers; NoAnswer: res has not been used yet
NoAnswer == 0

Ok == 200

Created == 201

BadRequest == 400

Unauthorized == 401

Conflict == 409

ServerError == 500

\* requests a run makes
MaxRequests == 3

\* One request.  pc: the await it is suspended in (read: fs.readFile of
\* readUsers; queued: its writeOperation sits in writeQueue; mkdir and write:
\* the two awaits of its running writeOperation).  users: the array its
\* writeUsers call was handed; repair: that call is the `writeUsers([])` of
\* readUsers.  Bookkeeping: with (the requests not yet answered when it
\* came in), queued (its writeOperation waited in writeQueue), outcome (how
\* the promise of its last writeUsers call settled), readerr (fs.readFile
\* failed with an error readUsers throws on).
NewRequest(kind, body) ==
  [id |-> Cardinality(requests) + 1, kind |-> kind, body |-> body,
   pc |-> "read", users |-> <<>>, repair |-> FALSE, answer |-> NoAnswer,
   with |-> {r.id : r \in {x \in requests : x.answer = NoAnswer}},
   queued |-> FALSE, outcome |-> "none", readerr |-> FALSE]

\* the lock, the queue and the requests, while one step works on them
Store == [flag |-> isWritingUsers, queue |-> writeQueue, reqs |-> requests]

Put(reqs, req) == {r \in reqs : r.id # req.id} \cup {req}

Answer(s, req, code) ==
  [s EXCEPT !.reqs = Put(@, [req EXCEPT !.pc = "done", !.answer = code])]

\* the lock is never seen taken
WriteBusyNever(flag) == FALSE

\* `if (isWritingUsers)` of writeUsers
WriteBusy(flag) == flag

\* writeUsers(users) up to the first await of writeOperation: queue the
\* closure, or take the lock and run it up to `await fs.mkdir`
writeUsers(s, req) ==
  IF WriteBusy(s.flag)
    THEN [s EXCEPT !.queue = Append(@, req.id),
                   !.reqs = Put(@, [req EXCEPT !.pc = "queued", !.queued = TRUE])]
    ELSE [s EXCEPT !.flag = TRUE,
                   !.reqs = Put(@, [req EXCEPT !.pc = "mkdir"])]

\* the queue is left as it is
NextQueuedNever(queue) == <<>>

\* `if (writeQueue.length > 0)` of the finally: the closures to shift
NextQueued(queue) == IF queue # <<>> THEN <<Head(queue)>> ELSE <<>>

\* the `finally` of writeOperation: release the lock, and with a closure
\* queued shift it, take the lock again and run it up to `await fs.mkdir`
Finally(s) ==
  LET next == NextQueued(s.queue) IN
  IF next # <<>>
    THEN [flag |-> TRUE, queue |-> Tail(s.queue),
          reqs |-> {IF r.id = next[1] THEN [r EXCEPT !.pc = "mkdir"] ELSE r :
                      r \in s.reqs}]
    ELSE [s EXCEPT !.flag = FALSE]

\* the user the register route stores; id and createdAt, readings of the
\* clock, are left out
NewUser(body) ==
  [name |-> Trim(body.name), email |-> Trim(toLowerCase(body.email)),
   password |-> body.password]

\* users.find(user => user.email === email): the index of the first one, or 0
Find(users, email) ==
  IF \E i \in DOMAIN users : users[i].email = email
    THEN CHOOSE i \in DOMAIN users :
           /\ users[i].email = email
           /\ \A k \in 1..(i - 1) : users[k].email # email
    ELSE 0

\* `users.find(user => user.email === email)` of the register route
RegisterFinds(users, email) == Find(users, email)

\* the routes once readUsers returned users.  register: 409 for an email
\* found, else push the new user and writeUsers.  login: 401 for an email not
\* found or another password, else the user
AfterRead(s, req, users) ==
  IF req.kind = "register"
    THEN IF RegisterFinds(users, req.body.email) # 0
           THEN Answer(s, req, Conflict)
           ELSE writeUsers(s, [req EXCEPT !.users = Append(users, NewUser(req.body)),
                                          !.repair = FALSE])
    ELSE LET i == Find(users, Trim(toLowerCase(req.body.email))) IN
         IF i = 0 \/ users[i].password # req.body.password
           THEN Answer(s, req, Unauthorized)
           ELSE Answer(s, req, Ok)

\* the promise of writeUsers settled, after the finally ran: readUsers
\* returns [] after its `writeUsers([])` either way; the register route
\* answers 201, or 500 from its catch
AfterWrite(s, req, resolved) ==
  LET r == [req EXCEPT !.outcome = IF resolved THEN "resolved" ELSE "rejected"]
  IN IF req.repair
       THEN AfterRead(s, r, <<>>)
       ELSE Answer(s, r, IF resolved THEN Created ELSE ServerError)

SetStore(s) ==
  /\ isWritingUsers' = s.flag
  /\ writeQueue' = s.queue
  /\ requests' = s.reqs

\* POST /api/users/register up to `await readUsers()`
Register(body) ==
  /\ Cardinality(requests) < MaxRequests
  /\ LET req == NewRequest("register", body) IN
     IF \/ body.name = <<>> \/ body.email = <<>> \/ body.password = <<>>
        \/ Len(body.password) < MinPassword
        \/ ~emailRegex(body.email)
       THEN SetStore(Answer(Store, req, BadRequest))
       ELSE SetStore([Store EXCEPT !.reqs = Put(@, req)])
  /\ UNCHANGED <<usersFile, service>>

\* POST /api/users/login up to `await readUsers()`
Login(body) ==
  /\ Cardinality(requests) < MaxRequests
  /\ LET req == NewRequest("login", body) IN
     IF body.email = <<>> \/ body.password = <<>>
       THEN SetStore(Answer(Store, req, BadRequest))
       ELSE SetStore([Store EXCEPT !.reqs = Put(@, req)])
  /\ UNCHANGED <<usersFile, service>>

\* fs.readFile of readUsers settled.  It resolved (or failed with ENOENT): no
\* file, no text and an array give the array; text that is not JSON makes
\* JSON.parse throw a SyntaxError and readUsers await `writeUsers([])`
ReadDone(req) ==
  /\ req \in requests
  /\ req.pc = "read"
  /\ SetStore(IF usersFile.kind = "corrupt"
                THEN writeUsers(Store, [req EXCEPT !.users = <<>>, !.repair = TRUE])
                ELSE AfterRead(Store, req, usersFile.users))
  /\ UNCHANGED <<usersFile, service>>

\* fs.readFile failed with another error: readUsers throws it and the catch
\* of the route answers 500
ReadFailed(req) ==
  /\ req \in requests
  /\ req.pc = "read"
  /\ SetStore(Answer(Store, [req EXCEPT !.readerr = TRUE], ServerError))
  /\ UNCHANGED <<usersFile, service>>

\* fs.mkdir of the running writeOperation resolved: fs.writeFile is awaited
\* (users is an array in every call of the routes modelled)
WriteMkdirDone(req) ==
  /\ req \in requests
  /\ req.pc = "mkdir"
  /\ SetStore([Store EXCEPT !.reqs = Put(@, [req EXCEPT !.pc = "write"])])
  /\ UNCHANGED <<usersFile, service>>

\* fs.writeFile resolved: the file holds JSON.stringify(users); resolve(),
\* the finally, and the continuation of the caller
WriteFileDone(req) ==
  /\ req \in requests
  /\ req.pc = "write"
  /\ usersFile' = JsonFile(req.users)
  /\ SetStore(AfterWrite(Finally(Store), req, TRUE))
  /\ UNCHANGED service

\* fs.mkdir or fs.writeFile rejected: reject(error), the finally, and the
\* continuation of the caller; the file is taken to be left as it was
WriteFailed(req) ==
  /\ req \in requests
  /\ req.pc \in {"mkdir", "write"}
  /\ SetStore(AfterWrite(Finally(Store), req, FALSE))
  /\ UNCHANGED <<usersFile, service>>

\* the files a run starts with
InitialFiles ==
  {NoFile, EmptyFile, CorruptFile, JsonFile(<<>>),
   JsonFile(<<NewUser([name |-> <<"n">>, email |-> Alice, password |-> Secret])>>)}

InitStore ==
  /\ budget = OneUser(0, 0)
  /\ InitService
  /\ \E file \in InitialFiles : InitUsers(file)

\* the steps of request number id that the file system takes
RequestStep(id) ==
  \E req \in {r \in requests : r.id = id} :
    \/ ReadDone(req)
    \/ WriteMkdirDone(req)
    \/ WriteFileDone(req)

\* the steps of the store with the bodies the requests are drawn from
StoreSteps(registerBodies, loginBodies) ==
  \/ \E body \in registerBodies : Register(body)
  \/ \E body \in loginBodies : Login(body)
  \/ \E req \in requests : ReadDone(req)
  \/ \E req \in requests : ReadFailed(req)
  \/ \E req \in requests : WriteMkdirDone(req)
  \/ \E req \in requests : WriteFileDone(req)
  \/ \E req \in requests : WriteFailed(req)

NextStore == StoreSteps(RegisterBodies, LoginBodies)

SpecStore == InitStore /\ [][NextStore]_vars

\* registrations of two emails and one login, on a file that is not JSON
LiveRegisterBodies ==
  {[name |-> <<"n">>, email |-> e, password |-> Secret] : e \in {Alice, Bob}}

LiveLoginBodies == {[name |-> <<>>, email |-> AliceUpper, password |-> Secret]}

InitStoreLive ==
  /\ budget = OneUser(0, 0)
  /\ InitService
  /\ InitUsers(CorruptFile)

NextStoreLive == StoreSteps(LiveRegisterBodies, LiveLoginBodies)

\* every read and write the file system was asked for settles
SpecStoreLive ==
  /\ InitStoreLive
  /\ [][NextStoreLive]_vars
  /\ \A id \in 1..MaxRequests : WF_vars(RequestStep(id))

\* --------------------------------------------------------------- scenario
\* The pairing scenario, run by every user on its own: no credentials and no
\* session; restore; once it has returned, initialize; the client issues one
\* pairing code; once the pairing artifact is there the phone scans it and the
\* client emits authenticated and ready.  Nothing throws.
InitScenario ==
  /\ budget = [calls |-> [u \in Users |-> 2], ops |-> Cardinality(Users),
               reads |-> [u \in Users |-> 0]]
  /\ InitMaps
  /\ sessionFiles = [u \in Users |-> FALSE]

ScenarioRestore(u) ==
  /\ budget.calls[u] = 2
  /\ RestoreWhatsAppSession(u)

ScenarioInitialize(u) ==
  /\ budget.calls[u] = 1
  /\ \A c \in calls : c.user # u
  /\ InitializeWhatsApp(u)

ScenarioQr(c, n) ==
  /\ Live(c)
  /\ qrCodes[ops[c].user] = NoQr
  /\ \A p \in pendingQr : p[1] # c
  /\ OnQr(c, n)

ScenarioScan(c) ==
  /\ Live(c)
  /\ getQRCode(ops[c].user) # Null
  /\ OnAuthenticated(c)

NextScenario ==
  \/ \E u \in Users : ScenarioRestore(u)
  \/ \E call \in calls : RestoreFilesDone(call)
  \/ \E u \in Users : ScenarioInitialize(u)
  \/ \E o \in OpIds : InitMkdirDone(o)
  \/ \E o \in OpIds : InitConnectDone(o)
  \/ \E c \in OpIds, n \in QrPayloads : ScenarioQr(c, n)
  \/ \E c \in OpIds, n \in QrPayloads : OnQrConverted(c, n)
  \/ \E c \in OpIds : ScenarioScan(c)
  \/ \E c \in OpIds : OnReady(c)

SpecScenario == InitScenario /\ [][NextScenario]_vars

\* --------------------------------------------------------------- fairness
\* every call an operation awaits (fs.mkdir, client.initialize, the timer)
\* returns or throws
OpStep(o) ==
  \/ InitMkdirDone(o) \/ InitConnectDone(o) \/ InitFail(o)
  \/ RestoreMkdirDone(o) \/ RestoreConnectDone(o) \/ RestoreTimerDone(o)
  \/ RestoreFail(o)

SpecLive == Init /\ [][Next]_vars /\ \A o \in OpIds : WF_vars(OpStep(o))

\* --------------------------------------------------------------- two users
\* both users issue calls: u1 up to PairCalls, every other user up to
\* PairOtherCalls
PairCalls == 2
PairOtherCalls == 1
PairOps == 2

InitPair ==
  /\ budget = [calls |-> [u \in Users |->
                            IF u = "u1" THEN PairCalls ELSE PairOtherCalls],
               ops |-> PairOps, reads |-> [u \in Users |-> 0]]
  /\ InitMaps

SpecPair == InitPair /\ [][Next]_vars

\* ------------------------------------------------------------------ claims
\* the IIFE of operation o has started and not settled
Running(o) == o \in 1..Len(ops) /\ ops[o].pc \in {"mkdir", "connect", "wait"}

\* operation c got as far as `new Client(...)`
Constructed(c) == clients[c].phase # "none"

\* the handshake of client c is in flight: connect started, not ready, failed,
\* disconnected, nor the target of a teardown
InHandshake(c) ==
  c \in 1..Len(ops) /\ clients[c].phase \in {"connecting", "authenticated"}
  /\ ~clients[c].torn

\* C1: of two initialize calls of one user that overlap, with no disconnect
\* started between them, at most one constructs a client.
C1_OverlappingInitializeOneClient ==
  \A o \in 1..Len(ops) : \A r \in ops[o].rivals :
    ~(Constructed(o) /\ Constructed(r))

\* C2 as claimed: an initialize call settles with the same outcome as every
\* initialize call of the same user that settled while it was in flight.
C2_OverlappingInitializeSameOutcome ==
  \A r \in returned :
    r.kind = "initialize" => \A x \in r.seen : x = r.result

\* C2 amended: the initialize calls that await the same pending operation
\* settle with the identical outcome, and an initialize call that awaits none
\* answers at once with "already connected" or "already initializing".
C2_CoalescedInitializeSameOutcome ==
  /\ \A a, b \in returned :
       (a.kind = "initialize" /\ b.kind = "initialize" /\ a.op = b.op)
         => a.result = b.result
  /\ \A r \in returned :
       (r.kind = "initialize" /\ r.op = NoOp)
         => r.result \in {AlreadyConnected, AlreadyInitializing}

\* two initialize calls settled together by one operation
C2_Witness ==
  \E a, b \in returned :
    /\ a.kind = "initialize" /\ b.kind = "initialize"
    /\ a.own /\ ~b.own /\ a.op = b.op /\ a.op # NoOp

\* C3: a user never has two clients whose handshake is in flight.
C3_OneHandshakePerUser ==
  \A u \in Users :
    Cardinality({c \in 1..Len(ops) : ops[c].user = u /\ InHandshake(c)}) <= 1

\* C4: the pairing artifact read by getQRCode is present exactly when the
\* status is qr_ready.
C4_ArtifactIffQrReady ==
  \A u \in Users :
    (getQRCode(u) # Null) <=> (getConnectionStatus(u) = "qr_ready")

\* C5: right after the ready event of the registered client is handled the
\* status is connected and the pairing artifact is absent.
C5_ReadyConnectsAndClearsArtifact ==
  [][\A c \in 1..Len(ops) :
       (/\ activeClients[ops[c].user] = c
        /\ clients[c].phase = "authenticated"
        /\ clients'[c].phase = "ready")
       => (/\ connectionStatus'[ops[c].user] = "connected"
           /\ qrCodes'[ops[c].user] = NoQr)]_vars

C7_MarkerHeldWhileRunning ==
  \A o \in 1..Len(ops) :
    Running(o) => initializingClients[ops[o].user] = o

\* C8 as claimed: a restore call during which no credentials were on disk
\* returns connected:false without a true hasSession and starts no client.
C8_RestoreWithoutCredentials ==
  /\ \A r \in returned :
       (r.kind = "restore" /\ r.nofiles)
         => /\ r.result.outcome = "return"
            /\ r.result.hasSession = "false"
            /\ ~r.result.connected
            /\ ~r.own
  /\ \A c \in calls : (c.kind = "restore" /\ c.nofiles) => ~c.own

\* C8 amended: a restore call during which no credentials were on disk starts
\* no client, and unless it awaited a pending operation it returns
\* {connected:false, hasSession:false}.
C8_RestoreWithoutCredentialsChecked ==
  /\ \A r \in returned :
       (r.kind = "restore" /\ r.nofiles)
         => /\ ~r.own
            /\ r.op = NoOp => r.result = NoSessionFound
  /\ \A c \in calls : (c.kind = "restore" /\ c.nofiles) => ~c.own

\* a restore call reached the credential check and found nothing
C8_Witness ==
  \E r \in returned :
    r.kind = "restore" /\ r.nofiles /\ r.result = NoSessionFound

\* C9: the status becomes qr_ready only from initializing or qr_ready.
C9_QrReadyOnlyFromInitializing ==
  [][\A u \in Users :
       connectionStatus'[u] = "qr_ready"
         => connectionStatus[u] \in {"initializing", "qr_ready"}]_vars

\* C10: initialize on a user whose registered client is ready returns
\* connected:true and changes nothing.
C10_InitializeWhenReadyIsNoOp ==
  [][\A u \in Users :
       (/\ InitializeWhatsApp(u)
        /\ activeClients[u] # NoClient
        /\ ClientInfo(activeClients[u]))
       => (/\ \A r \in returned' : r.result = AlreadyConnected /\ r.op = NoOp
           /\ returned' # {}
           /\ UNCHANGED <<registry, ops, clients, pendingQr>>)]_vars

\* an initialize call answered "already connected"
C10_Witness ==
  \E r \in returned : r.kind = "initialize" /\ r.result = AlreadyConnected

\* C11 as claimed: an initialize call made while the status is initializing,
\* restoring or qr_ready returns connected:false in the same step and starts
\* no operation and no client.
C11_InitializeMidHandshakeReturnsAtOnce ==
  [][\A u \in Users :
       (/\ InitializeWhatsApp(u)
        /\ connectionStatus[u] \in {"initializing", "restoring", "qr_ready"})
       => (/\ returned' # {}
           /\ \A r \in returned' :
                r.result.outcome = "return" /\ ~r.result.connected
           /\ UNCHANGED <<ops, clients>>)]_vars

\* the session of user u is entirely cleared
Cleared(u) ==
  /\ getClient(u) = NoClient
  /\ getQRCode(u) = Null
  /\ getConnectionStatus(u) = "not_initialized"
  /\ initializingClients[u] = NoOp

\* the calls rejected in this step with the error of an operation of the kind
RejectedBy(kind) ==
  {r \in returned : /\ r.result.outcome = "throw"
                    /\ r.result.err \in 1..Len(ops)
                    /\ ops[r.result.err].kind = kind}

\* the rejection of r reaches the whole group of its operation: the call that
\* started it and every call that awaited it get the error of r, none is left
\* waiting
GroupRejected(r) ==
  /\ \E t \in returned : t.own /\ t.op = r.result.err /\ t.result = r.result
  /\ \A t \in returned : t.op = r.result.err => t.result = r.result
  /\ \A c \in calls : ~(c.pc = "await" /\ c.op = r.result.err)

\* C12: when an operation started by initialize throws, at the moment its
\* callers are rejected the session of the user is entirely cleared, and the
\* caller that started it and every caller awaiting it get that same error.
C12_InitializeFailureClearsSession ==
  \A r \in RejectedBy("initialize") : Cleared(r.user) /\ GroupRejected(r)

\* connect threw, and the rejection reached the caller that
\* started the operation together with a coalesced one
C12_Witness ==
  \E a, b \in RejectedBy("initialize") :
    /\ a.own /\ ~b.own /\ a.result = b.result
    /\ a.result.message = "connect"

\* C13: a restore call that waited on a registered client in handshake and
\* found it still not ready starts no operation of its own, so it neither
\* constructs a client nor replaces the registered handle, and what it returns
\* is a not-connected result.
C13_RestoreAfterWaitConstructsNothing ==
  /\ \A c \in calls \cup returned : (c.kind = "restore" /\ c.waited) => ~c.own
  /\ \A r \in returned :
       (r.kind = "restore" /\ r.waited /\ r.result.outcome = "return")
         => ~r.result.connected

\* C14: when the wait of an operation started by restore ends, the call that
\* started it returns connected:true exactly if the ready event of its client
\* has arrived, and otherwise connected:false with hasSession:true, the
\* registered handle being left as it is; a ready event of that client after
\* the return makes the status connected.
C14_RestoreAnswersByReadiness ==
  [][\A o \in 1..Len(ops) :
       ops[o].kind = "restore" =>
         /\ (ops[o].pc = "wait" /\ ops'[o].pc = "resolved")
              => /\ \E r \in returned' : r.own /\ r.op = o
                 /\ \A r \in returned' :
                      (r.own /\ r.op = o)
                        => /\ r.result.outcome = "return"
                           /\ r.result.connected <=> clients[o].info
                           /\ ~r.result.connected
                                => /\ r.result.hasSession = "true"
                                   /\ activeClients' = activeClients
         /\ (/\ ops[o].pc = "resolved"
             /\ clients[o].phase # "ready"
             /\ clients'[o].phase = "ready")
              => connectionStatus'[ops[o].user] = "connected"]_vars

\* a restore call returned "not connected yet" and its client is the
\* registered handle
C14_Witness ==
  \E r \in returned :
    /\ r.kind = "restore" /\ r.own /\ r.result = NotConnectedYet
    /\ activeClients[r.user] = r.op

\* C15: when an operation started by restore throws, at the moment its callers
\* are rejected the session of the user is cleared (handle, pairing artifact,
\* status, marker), and the caller that started it and every caller coalesced
\* onto it get that same error.
C15_RestoreFailureClearsSession ==
  \A r \in RejectedBy("restore") : Cleared(r.user) /\ GroupRejected(r)

\* C16: when a disconnect call returns it has not raised and the session of
\* its user is removed: no client handle, no pairing artifact, no pending
\* marker, and the status reads not_initialized.
C16_DisconnectRemovesSession ==
  \A r \in returned :
    r.kind = "disconnect" => r.result = Disconnected /\ Cleared(r.user)

\* C17: in the pairing scenario restore returns {connected:false,
\* hasSession:false} and creates no client; from the pairing code being stored
\* until the scan the artifact is there with status qr_ready; and once the
\* ready event has fired the status route reports connected.
C17_PairingScenarioEndsConnected ==
  /\ \A r \in returned :
       r.kind = "restore"
         => /\ r.result = NoSessionFound
            /\ ~r.own
            /\ getClient(r.user) = NoClient
            /\ \A o \in 1..Len(ops) : ops[o].user # r.user
  /\ \A c \in 1..Len(ops) :
       /\ (clients[c].phase = "connecting" /\ qrCodes[ops[c].user] # NoQr)
            => /\ getQRCode(ops[c].user) = toDataURL("qr")
               /\ getConnectionStatus(ops[c].user) = "qr_ready"
       /\ clients[c].phase = "ready"
            => /\ StatusRoute(ops[c].user).status = "connected"
               /\ StatusRoute(ops[c].user).connected

\* both users went through the whole scenario
C17_Witness ==
  \A u \in Users :
    /\ budget.calls[u] = 0
    /\ \E c \in 1..Len(ops) : ops[c].user = u /\ clients[c].phase = "ready"
    /\ StatusRoute(u).connected

\* the Gateway calls with a readiness wait
Waits(c) == c.kind \in {"getChats", "getChatMessages", "getChatCount"}

\* C18: a listConversations or getMessages call made while the status is not
\* connected, a client handle being registered or not, does not fail at once:
\* it starts the readiness wait.
C18_ReadsWaitWhenNotConnected ==
  [][\A u \in Users :
       (/\ getConnectionStatus(u) # "connected"
        /\ ~(getClient(u) # NoClient /\ ClientInfo(getClient(u)))
        /\ GetChats(u) \/ GetChatMessages(u) \/ MessagesRoute(u))
       => (/\ returned' = {}
           /\ \E c \in calls' \ calls : c.pc = "poll")]_vars

\* C19: the readiness wait of getChats, getChatMessages and getChatCount makes
\* at most MaxAttempts polls; a poll that finds the client ready goes on to
\* the transport, an unsuccessful poll below the ceiling is followed by
\* another, and the unsuccessful poll that reaches the ceiling fails the call
\* with the not-ready error.
C19_ReadinessWaitBounded ==
  [][/\ \A c \in calls' \cup returned' :
          Waits(c) => /\ c.attempts <= MaxAttempts
                      /\ c.pc = "poll" => c.attempts < MaxAttempts
     /\ \A r \in returned' :
          (Waits(r) /\ r.result = NotReadyError(r.kind))
            => r.attempts = MaxAttempts /\ ~ClientInfo(r.client)
     /\ \A c \in calls : \A d \in calls' \cup returned' :
          (/\ Waits(c) /\ c.pc = "poll"
           /\ d.kind = c.kind /\ d.user = c.user /\ d.id = c.id
           /\ d.attempts = c.attempts + 1)
            => IF ClientInfo(c.client)
                 THEN d.pc = "transport"
               ELSE IF d.attempts < MaxAttempts
                 THEN d.pc = "poll"
               ELSE d.pc = "returned" /\ d.result = NotReadyError(c.kind)]_vars

\* a call gave up with the not-ready error at the ceiling
C19_Witness ==
  \E r \in returned :
    Waits(r) /\ r.result = NotReadyError(r.kind) /\ r.attempts = MaxAttempts

\* C20: a sendMessage call made while a client handle is registered but not
\* ready does not fail at once: it waits for readiness.
C20_SendWaitsForReadiness ==
  [][\A u \in Users :
       (/\ getClient(u) # NoClient
        /\ ~ClientInfo(getClient(u))
        /\ \E message \in Texts : SendMessage(u, message))
       => returned' = {}]_vars

\* the awaits of a Gateway call on a transport data call
TransportPcs == {"transport", "chat", "send", "verify", "format", "fetch"}

Gateway(c) == c.kind \in {"getChats", "getChatMessages", "getChatCount", "sendMessage"}

\* C21: a Gateway call that has reached a transport data call holds a client
\* that was registered when the call started, and that client is ready.
C21_TransportOnlyOnReadyClient ==
  \A c \in calls \cup returned :
    (Gateway(c) /\ (c.pc \in TransportPcs \/ c.stages # {} \/ c.fetched # "none"))
      => c.client # NoClient /\ ClientInfo(c.client)

\* a sendMessage call awaits chat.sendMessage on a client that became ready
\* after a lifecycle call
C21_Witness ==
  \E c \in calls :
    /\ c.kind = "sendMessage" /\ c.pc = "send"
    /\ c.client # NoClient /\ ClientInfo(c.client)

\* a Gateway call was started, moved on, or returned in this step
GatewayStep ==
  \E d \in calls' \cup returned' :
    /\ Gateway(d)
    /\ \A c \in calls :
         ~(/\ c.kind = d.kind /\ c.user = d.user /\ c.id = d.id
           /\ c.pc = d.pc /\ c.attempts = d.attempts /\ c.fmt = d.fmt)

\* C22: a step of a Gateway call, whether it starts the call, moves it on or
\* ends it with a value or an error, leaves the four maps of the registry as
\* they are.
C22_GatewayLeavesRegistry ==
  [][GatewayStep => UNCHANGED registry]_vars

\* getChats failed with the error of the transport while the user's client
\* is registered
C22_Witness ==
  \E r \in returned :
    /\ r.kind = "getChats" /\ r.result = TransportError
    /\ activeClients[r.user] = r.client /\ r.client # NoClient

\* a sendMessage call whose chat.sendMessage rejected with a benign error
\* and whose verification fetched the history
Verified(r) ==
  r.kind = "sendMessage" /\ r.senderr # NoError /\ r.fetched = "ok"
  /\ (ErrorIncludes(r.senderr, "markedUnread")
      \/ ErrorIncludes(r.senderr, "Cannot read properties of undefined"))

\* an own message less than 15 seconds old
RecentOwn(m) == m.fromMe /\ m.age < RecentWindow

\* ... whose trimmed body equals, contains or is contained in the trimmed text
MatchesText(m, message) == RecentOwn(m) /\ TextMatch(Trim(m.body), Trim(message))

\* ... and whose body is not empty
MatchesTextNonEmpty(m, message) == m.body # <<>> /\ MatchesText(m, message)

ReturnsRecentOwn(r) ==
  /\ r.result.outcome = "return"
  /\ \E i \in 1..Len(r.recent) : r.value = MessageId(i) /\ RecentOwn(r.recent[i])

Qualifies(m, message) ==
  \/ MatchesTextNonEmpty(m, message)
  \/ m.fromMe /\ m.age < VeryRecentWindow

\* C24: after a benign error, when no message of the fetched history
\* qualifies, or the fetch of the history throws, sendMessage returns the
\* placeholder id and does not throw.
C24_NothingVerifiedReturnsPlaceholder ==
  \A r \in returned :
    (/\ r.kind = "sendMessage"
     /\ r.fetched # "none"
     /\ \/ r.fetched = "throws"
        \/ \A i \in 1..Len(r.recent) : ~Qualifies(r.recent[i], r.text))
      => r.result.outcome = "return" /\ r.value = TempId

\* the history holds an own message that is too old and a foreign one that
\* matches, and the placeholder is returned
C24_Witness ==
  \E r \in returned :
    /\ Verified(r) /\ Len(r.recent) = 2
    /\ r.recent[1].fromMe /\ r.recent[1].age >= RecentWindow
    /\ ~r.recent[2].fromMe /\ r.recent[2].body = r.text
    /\ r.value = TempId

\* C25: an error of chat.sendMessage whose message holds neither benign
\* phrase reaches the caller as it is: no settle wait, no fetch of the
\* history, no id.
C25_OtherSendErrorsPropagate ==
  \A r \in returned :
    (/\ r.kind = "sendMessage"
     /\ r.senderr # NoError
     /\ ~ErrorIncludes(r.senderr, "markedUnread")
     /\ ~ErrorIncludes(r.senderr, "Cannot read properties of undefined"))
      => /\ r.result = GatewayError(r.senderr)
         /\ r.stages \cap {"settle", "verify"} = {}
         /\ r.fetched = "none"
         /\ r.value = NoId

\* chat.sendMessage rejected with 'Protocol error: Session closed'
C25_Witness ==
  \E r \in returned :
    /\ r.kind = "sendMessage"
    /\ r.senderr = "Protocol error: Session closed"
    /\ r.result = GatewayError("Protocol error: Session closed")

\* C26: after a benign error, when some recent own message of the history
\* matches the text, the id returned is that of a message that matches.
C26_TextMatchBeforeRecency ==
  \A r \in returned :
    (Verified(r) /\ \E i \in 1..Len(r.recent) :
                      MatchesTextNonEmpty(r.recent[i], r.text))
      => \E i \in 1..Len(r.recent) :
           r.value = MessageId(i) /\ MatchesTextNonEmpty(r.recent[i], r.text)

\* C27: a getChats call whose client.getChats() resolved with no conversation
\* has returned the empty list, without throwing and without starting a
\* sub-fetch.
C27_NoChatsReturnsEmpty ==
  \A c \in calls \cup returned :
    (c.kind = "getChats" /\ c.fetched = "ok" /\ Len(c.fmt) = 0)
      => /\ c.pc = "returned"
         /\ c.result = GatewayOk("getChats")
         /\ c.list = <<>>
         /\ "format" \notin c.stages

\* getChats returned on an empty list of conversations
C27_Witness ==
  \E r \in returned :
    /\ r.kind = "getChats" /\ r.fetched = "ok" /\ Len(r.fmt) = 0
    /\ r.result = GatewayOk("getChats")

\* the entry of chat i by the outcomes of its own races alone: the contact
\* race first, the avatar race when the contact came, then the race of the
\* last message, then that of the image when the last message is one
OutcomeOfLast(out) == out[IF out[1] = "ok" THEN 3 ELSE 2]

ExpectedEntry(i, out) ==
  [id |-> i,
   name |-> IF out[1] = "ok" THEN "contact" ELSE "chat",
   avatar |-> IF out[1] = "ok" /\ out[2] = "ok" THEN "url" ELSE "null",
   lastMessageType |->
     CASE OutcomeOfLast(out) \in {"image", "image_nomedia"} -> "image"
       [] OutcomeOfLast(out) = "chat" -> "chat"
       [] OTHER -> "none",
   lastMessageImage |-> OutcomeOfLast(out) = "image" /\ out[Len(out)] = "small",
   timestamp |->
     IF OutcomeOfLast(out) \in {"image", "image_nomedia", "chat"}
       THEN "time" ELSE ""]

Degraded(out) == \E k \in 1..Len(out) : out[k] \in {"fail", "timeout"}

\* C28: a getChats call that listed conversations and began their sub-fetches
\* does not throw, whatever sub-fetch failed or timed out: it returns one
\* entry for each conversation, and the entry of a conversation is the one
\* its own sub-fetches give.
C28_SubFetchFailuresDegradeOneEntry ==
  \A r \in returned :
    (r.kind = "getChats" /\ "format" \in r.stages)
      => /\ r.result = GatewayOk("getChats")
         /\ Len(r.list) = Len(r.fmt)
         /\ \A i \in 1..Len(r.fmt) :
              \E k \in 1..Len(r.list) : r.list[k] = ExpectedEntry(i, r.fmt[i].out)

\* two conversations: the contact fetch of the first timed out, every
\* sub-fetch of the second came, and the second has its full entry
C28_Witness ==
  \E r \in returned :
    /\ r.kind = "getChats" /\ Len(r.fmt) = 2
    /\ r.fmt[1].out[1] = "timeout"
    /\ ~Degraded(r.fmt[2].out)
    /\ \E k \in 1..2 :
         /\ r.list[k].id = 2 /\ r.list[k].name = "contact"
         /\ r.list[k].avatar = "url" /\ r.list[k].timestamp # ""

HasTimestamp(e) == e.timestamp # ""

LacksTimestamp(e) == e.timestamp = ""

\* the entries in the order client.getChats() gave the conversations
TransportOrder(r) == [i \in 1..Len(r.fmt) |-> ExpectedEntry(i, r.fmt[i].out)]

\* C29: the list getChats returns is the transport's order with the entries
\* that have a timestamp first and those that lack one behind them, each
\* group in the transport's order.
C29_StablePartitionByTimestamp ==
  \A r \in returned :
    (r.kind = "getChats" /\ r.result = GatewayOk("getChats") /\ Len(r.fmt) > 0)
      => r.list = SelectSeq(TransportOrder(r), HasTimestamp)
                    \o SelectSeq(TransportOrder(r), LacksTimestamp)

\* the first conversation has no last message, the second has one: they
\* come back exchanged
C29_Witness ==
  \E r \in returned :
    /\ r.kind = "getChats" /\ Len(r.list) = 2
    /\ r.list[1].id = 2 /\ r.list[1].timestamp # ""
    /\ r.list[2].id = 1 /\ r.list[2].timestamp = ""

\* the locals of a callback that make up its entry
EntryFields(f) == <<f.name, f.avatar, f.type, f.image>>

\* a sub-fetch of chat i that its timer had abandoned settled in this step
SettledLate(c, d, i) ==
  /\ c.kind = "getChats" /\ d.kind = "getChats"
  /\ c.user = d.user /\ c.id = d.id
  /\ i \in 1..Len(c.fmt) /\ Len(d.fmt) = Len(c.fmt)
  /\ d.fmt[i].late # c.fmt[i].late /\ d.fmt[i].late \subseteq c.fmt[i].late

\* C30: with the timers firing, a getChats call that waits for
\* client.getChats() or for the sub-fetches of its conversations returns,
\* though no sub-fetch ever settles; and a sub-fetch that settles after its
\* timer fired changes nothing of the entry of its conversation.
C30_ListingEndsDespiteStuckSubFetches ==
  /\ \A k \in 1..ReadyReads :
       (\E c \in calls : c.kind = "getChats" /\ c.id = k)
         ~> (\E r \in returned : r.kind = "getChats" /\ r.id = k)
  /\ [][\A c \in calls : \A d \in calls' \cup returned' :
          \A i \in 1..MaxChats :
            SettledLate(c, d, i) => EntryFields(d.fmt[i]) = EntryFields(c.fmt[i])]_vars

\* every race of both conversations was lost to its timer, and the call
\* returned the two minimal entries
C30_Witness ==
  \E r \in returned :
    /\ r.kind = "getChats" /\ Len(r.list) = 2
    /\ \A i \in 1..2 : r.fmt[i].out = <<"timeout", "timeout">>
    /\ \A k \in 1..2 : /\ r.list[k].name = "chat" /\ r.list[k].avatar = "null"
                       /\ r.list[k].timestamp = ""

\* C31: getChatMessages asks for no more than 100 messages and returns one
\* object for each message fetched, in the same order: sender is 'me' for an
\* own message and 'them' otherwise; the status of an own message is read
\* for ordinal 3, delivered for 2 and sent for every other ordinal, and a
\* message of somebody else has none.
C31_MessagesMappedInOrder ==
  \A r \in returned :
    (r.kind = "getChatMessages" /\ r.fetched = "ok")
      => /\ r.limit <= 100
         /\ r.result = GatewayOk("getChatMessages")
         /\ Len(r.formatted) = Len(r.msgs)
         /\ \A i \in 1..Len(r.msgs) :
              LET m == r.msgs[i]
                  f == r.formatted[i]
              IN /\ f.id = MessageId(i)
                 /\ f.sender = (IF m.fromMe THEN "me" ELSE "them")
                 /\ m.fromMe => f.status = (CASE m.ack = 3 -> "read"
                                              [] m.ack = 2 -> "delivered"
                                              [] OTHER -> "sent")
                 /\ ~m.fromMe => f.status = Undefined

\* a read message of somebody else followed by an own message that is
\* pending
C31_Witness ==
  \E r \in returned :
    /\ r.kind = "getChatMessages" /\ Len(r.msgs) = 2
    /\ ~r.msgs[1].fromMe /\ r.msgs[1].ack = 3 /\ r.formatted[1].status = Undefined
    /\ r.msgs[2].fromMe /\ r.msgs[2].ack = 0 /\ r.formatted[2].status = "sent"

\* client c emits a lifecycle event and its handler runs (for the pairing
\* code: the part of the handler after the conversion)
EmitsEvent(c) ==
  \/ \E n \in QrPayloads : OnQrConverted(c, n)
  \/ OnAuthenticated(c)
  \/ OnReady(c)
  \/ OnAuthFailure(c)
  \/ OnDisconnected(c)

\* C32: the handler of an event of a client that is not the registered
\* handle of its user leaves the handle, the status and the pairing code of
\* that user as they are.
C32_StaleClientEventsIgnored ==
  [][\A c \in OpIds :
       (EmitsEvent(c) /\ activeClients[ops[c].user] # c)
         => /\ activeClients'[ops[c].user] = activeClients[ops[c].user]
            /\ connectionStatus'[ops[c].user] = connectionStatus[ops[c].user]
            /\ qrCodes'[ops[c].user] = qrCodes[ops[c].user]]_vars

\* C33: whenever the status of a user is connected, a client handle is
\* registered for the user and that client is ready.
C33_ConnectedHasReadyHandle ==
  \A u \in Users :
    connectionStatus[u] = "connected"
      => /\ activeClients[u] # NoClient
         /\ clients[activeClients[u]].phase = "ready"

\* a disconnect call of u returned in the step that led to this state
JustDisconnected(u) ==
  \E r \in returned : r.kind = "disconnect" /\ r.user = u

\* C34: once a disconnect call of u has returned, a step that is not a new
\* initialize or restore call of u registers no handle for u, stores no
\* pairing code for u and leaves the status of u not_initialized.
C34_NothingRegistersAfterDisconnect ==
  [][\A u \in Users :
       (JustDisconnected(u)
         /\ ~InitializeWhatsApp(u) /\ ~RestoreWhatsAppSession(u))
         => /\ getClient(u) = NoClient => getClient(u)' = NoClient
            /\ getQRCode(u) = Null => getQRCode(u)' = Null
            /\ getConnectionStatus(u) = "not_initialized"
                 => getConnectionStatus(u)' = "not_initialized"]_vars

\* the step is a call, a continuation or an event handler that runs for
\* user a
StepFor(a) ==
  \/ InitializeWhatsApp(a)
  \/ RestoreWhatsAppSession(a)
  \/ DisconnectWhatsApp(a)
  \/ \E call \in calls :
       /\ call.user = a
       /\ \/ RestoreExistingWaitDone(call)
          \/ RestoreFilesDone(call)
          \/ DisconnectTeardownDone(call)
  \/ \E o \in 1..Len(ops) :
       /\ ops[o].user = a
       /\ \/ OpStep(o)
          \/ EmitsEvent(o)
          \/ \E n \in QrPayloads : OnQr(o, n) \/ OnQrError(o, n)

\* what the registry holds for user b
Session(b) ==
  <<activeClients[b], connectionStatus[b], qrCodes[b], initializingClients[b]>>

\* C35: a step that runs for user a leaves the handle, the status, the
\* pairing code and the pending marker of every other user as they are.
C35_UsersAreIsolated ==
  [][\A a \in Users :
       StepFor(a) => \A b \in Users \ {a} : Session(b)' = Session(b)]_vars

\* a disconnect of one user returned while another user has a registered
\* client and an operation in flight
C35_Witness ==
  \E r \in returned :
    /\ r.kind = "disconnect"
    /\ r.client # NoClient
    /\ \E b \in Users \ {r.user} :
         activeClients[b] # NoClient /\ initializingClients[b] # NoOp

\* C36: a sendMessage call has awaited chat.sendMessage at most once, and
\* exactly once when it is in, or returned from, the path of a benign error,
\* which only reads the history.
C36_TransportSendAtMostOnce ==
  \A call \in calls \cup returned :
    call.kind = "sendMessage"
      => /\ call.sends <= 1
         /\ (call.pc \in {"send", "settle", "verify"} \/ call.senderr # NoError)
              => call.sends = 1

\* a call returned from the benign path after it read the history
C36_Witness ==
  \E r \in returned :
    /\ r.kind = "sendMessage"
    /\ IsBenign(r.senderr)
    /\ r.fetched = "ok"
    /\ r.sends = 1

\* the requests whose writeOperation is running
WritesRunning == {r \in requests : r.pc \in {"mkdir", "write"}}

\* C37: at most one writeOperation is running, and isWritingUsers is true
\* exactly when one is; a queued one waits only while the flag is set.
C37_WritesAreExclusive ==
  /\ Cardinality(WritesRunning) <= 1
  /\ isWritingUsers <=> WritesRunning # {}
  /\ \A r \in requests : r.pc = "queued" => isWritingUsers

\* a writeOperation that waited in the queue is running while another one
\* is queued behind it
C37_Witness ==
  /\ \E r \in WritesRunning : r.queued
  /\ writeQueue # <<>>

\* request number id is suspended in a writeUsers call
Writing(id) ==
  \E r \in requests : r.id = id /\ r.pc \in {"queued", "mkdir", "write"}

\* C38: a request suspended in a writeUsers call is eventually answered,
\* whatever happened to the writes before it (a run makes finitely many
\* requests and a request leaves writeUsers only by being answered, so this
\* says that from some point on no request is suspended in writeUsers); a
\* request answers 500 only when
\* its own read or its own write failed; while a writeOperation is queued
\* one is running; and with none queued or running the lock is free.
C38_EveryWriteSettles ==
  /\ <>[](\A id \in 1..MaxRequests : ~Writing(id))
  /\ [](\A r \in requests :
          r.answer = ServerError => r.readerr \/ r.outcome = "rejected")
  /\ [](\A r \in requests : r.pc = "queued" => WritesRunning # {})
  /\ []((\A id \in 1..MaxRequests : ~Writing(id)) => ~isWritingUsers)

\* a registration whose write waited in the queue answered 201 although the
\* write of a request that overlapped it failed, and the lock is free
C38_Witness ==
  /\ ~isWritingUsers
  /\ \E r1, r2 \in requests :
       /\ r1.outcome = "rejected" /\ r1.answer = ServerError
       /\ r1.id \in r2.with
       /\ r2.queued /\ r2.answer = Created

\* the email of user is in the file
Stored(email) ==
  \E i \in DOMAIN usersFile.users : usersFile.users[i].email = email

\* C39: once every request is answered, two registrations that overlapped,
\* had different emails and both answered 201 are both in the file.
C39_OverlappingRegistrationsBothStored ==
  (\A r \in requests : r.pc = "done")
    => \A r1, r2 \in requests :
         (/\ r1.kind = "register" /\ r2.kind = "register"
          /\ r1.id \in r2.with
          /\ r1.answer = Created /\ r2.answer = Created
          /\ NewUser(r1.body).email # NewUser(r2.body).email)
           => /\ Stored(NewUser(r1.body).email)
              /\ Stored(NewUser(r2.body).email)

\* C40: no two users in the file have the same email.
C40_StoredEmailsAreDistinct ==
  \A i, j \in DOMAIN usersFile.users :
    usersFile.users[i].email = usersFile.users[j].email => i = j

====
